---- MODULE Spec2Model ----
(***************************************************************************)
(* Real-time path renderer: the ingest -> reduce -> pack pipeline.         *)
(*                                                                         *)
(*   data worker   src/src/workers/dataProcessor.worker.js                 *)
(*   path store    src/unnamed/part_005  (RobotPathManager)                *)
(*   renderer      src/src/renderer/WebGLRenderer.js                       *)
(*   main thread   src/src/App.vue                                         *)
(*   simulator     src/src/simulator/simulator.worker.js                   *)
(*                                                                         *)
(* Numbers.  Every JavaScript number of the model is a fixed-point integer *)
(* counting twentieths: N(1) = 20 stands for 1.0, 10 for 0.5, 4 for 0.2.   *)
(* Twentieths hold the colour pool of the path store (0.2, 0.4, 0.6, 0.7,  *)
(* 0.9, 1.0) and the halves the tests of the pipeline use.                 *)
(***************************************************************************)
EXTENDS Integers, Sequences, FiniteSets, TLC

(***************************************************************************)
(* Bounds of the model.                                                    *)
(***************************************************************************)
\* Calls followed by the store specification, and messages posted to the
\* data worker in the worker specification.
MaxOps == 3

\* Calls followed by the renderer specification.
MaxRenderOps == 4

(***************************************************************************)
(* Program constants, scaled: the program allocates 50000 points per       *)
(* entity and packs at most 120000; in the model a pack fills up after    *)
(* one entity buffer, where the program needs 2.4 of them, so that a full  *)
(* pack with entities still to visit is met with two entities.  Entity ids *)
(* are drawn from 0 .. maxRobots, one more than the store admits.          *)
(***************************************************************************)
maxPointsPerRobot == 2
MAX_POINTS == 2
maxRobots == 1

(***************************************************************************)
(* Numbers                                                                 *)
(***************************************************************************)
N(k) == 20 * k
One == N(1)

Min2(a, b) == IF a <= b THEN a ELSE b
Max2(a, b) == IF a >= b THEN a ELSE b
Abs(v) == IF v < 0 THEN -v ELSE v

\* Math.floor(v / d) for d > 0 (\div of Integers already rounds down).
FloorDiv(v, d) == v \div d

\* Math.round(v / d) for d > 0: the nearest integer, a tie going up.
RoundDiv(v, d) == (2 * v + d) \div (2 * d)

\* Number of bits of a natural number.
RECURSIVE BitLen(_)
BitLen(v) == IF v = 0 THEN 0 ELSE 1 + BitLen(v \div 2)

\* A write into a Float32Array or DataView.setFloat32: the value keeps 24
\* significant bits (round to nearest, ties to even).  Magnitudes below 2^24
\* twentieths are kept as they are; the sub-ulp error of a decimal fraction
\* is not followed.
F32(v) ==
    LET m == Abs(v)
        q == 2 ^ Max2(0, BitLen(m) - 24)
        lo == (m \div q) * q
        r == m - lo
        up == \/ 2 * r > q
              \/ 2 * r = q /\ (m \div q) % 2 = 1
        a == IF up THEN lo + q ELSE lo
    IN  IF v < 0 THEN -a ELSE a

\* JavaScript's  v || d  for a number v: 0 (and NaN, undefined) is falsy.
OrElse(v, d) == IF v = 0 THEN d ELSE v

RECURSIVE SeqSum(_)
SeqSum(s) == IF s = <<>> THEN 0 ELSE Head(s) + SeqSum(Tail(s))

Last(s) == s[Len(s)]

\* The last k elements of s.
LastN(s, k) == SubSeq(s, Len(s) - k + 1, Len(s))

(***************************************************************************)
(* Path store: RobotPathManager                                            *)
(***************************************************************************)
\* Entity ids the inputs draw from: one more than the store is meant to track.
Ids == {N(k) : k \in 0 .. maxRobots}

colorPool ==
    << <<20, 4, 4, 18>>, <<4, 20, 4, 18>>, <<4, 4, 20, 18>>, <<20, 20, 4, 18>>,
       <<20, 4, 20, 18>>, <<4, 20, 20, 18>>, <<20, 12, 4, 18>>, <<12, 4, 20, 18>>,
       <<20, 8, 14, 18>>, <<8, 20, 8, 18>> >>

\* null
Null == <<>>

\* new Float32Array(n): n zeros.
Zeros(n) == [i \in 1 .. n |-> 0]

\* Mutant of CopyWithin0: the shift is forgotten.
CopyWithin0Stay(arr, k) == arr

\* TypedArray.copyWithin(0, k): elements k.. move to the front, the last k stay.
CopyWithin0(arr, k) ==
    [i \in 1 .. Len(arr) |-> IF i + k <= Len(arr) THEN arr[i + k] ELSE arr[i]]

\* arr[index] = v on a typed array (0-based index); an index outside the
\* array writes nothing.
SetAt(arr, index, v) ==
    IF index >= 0 /\ index < Len(arr) THEN [arr EXCEPT ![index + 1] = F32(v)] ELSE arr

\* The entity record addRobot creates; size is robots.size before the insert.
NewRobot(robotId, size) ==
    [ id |-> robotId,
      color |-> colorPool[(size % Len(colorPool)) + 1],
      vertices |-> Zeros(maxPointsPerRobot * 2),
      colors |-> Zeros(maxPointsPerRobot * 4),
      pointCount |-> 0,
      startPosition |-> Null,
      currentPosition |-> Null,
      isActive |-> TRUE ]

\* The store is the pair (rs, order): rs maps each tracked id to its record,
\* order is the Map's insertion order.
Store(rs, order) == [rs |-> rs, order |-> order]

EmptyStore == Store(<<>>, <<>>)

Has(st, robotId) == robotId \in DOMAIN st.rs

addRobot(st, robotId) ==
    IF Has(st, robotId)
    THEN st
    ELSE Store([i \in DOMAIN st.rs \cup {robotId} |->
                    IF i = robotId THEN NewRobot(robotId, Len(st.order)) ELSE st.rs[i]],
               Append(st.order, robotId))

\* A start marker that follows every append.
startPositionLatest(robot, x, y) == <<x, y>>

\* if (!robot.startPosition) robot.startPosition = { x, y }
startPositionOf(robot, x, y) ==
    IF robot.startPosition = Null THEN <<x, y>> ELSE robot.startPosition

\* addPoint(robotId, x, y, color): color is a 4-tuple or Null.
addPoint(st, robotId, x, y, color) ==
    LET st1 == IF Has(st, robotId) THEN st ELSE addRobot(st, robotId)
        r0 == st1.rs[robotId]
        r1 == [r0 EXCEPT !.startPosition = startPositionOf(r0, x, y),
                         !.currentPosition = <<x, y>>]
        full == r1.pointCount >= maxPointsPerRobot
        r2 == IF full
              THEN [r1 EXCEPT !.vertices = CopyWithin0(r1.vertices, 2),
                              !.colors = CopyWithin0(r1.colors, 4),
                              !.pointCount = r1.pointCount - 1]
              ELSE r1
        vertexIndex == r2.pointCount * 2
        colorIndex == r2.pointCount * 4
        c == IF color = Null THEN r2.color ELSE color
        v1 == SetAt(SetAt(r2.vertices, vertexIndex, x), vertexIndex + 1, y)
        c1 == SetAt(SetAt(SetAt(SetAt(r2.colors, colorIndex, c[1]),
                  colorIndex + 1, c[2]), colorIndex + 2, c[3]), colorIndex + 3, c[4])
        r3 == [r2 EXCEPT !.vertices = v1, !.colors = c1,
                         !.pointCount = r2.pointCount + 1]
    IN  Store([st1.rs EXCEPT ![robotId] = r3], st1.order)

\* A point of a batch handed to addPoints: x, y, r, g, b, a, robotId, and
\* color, TRUE when the object carries a truthy `color` property.
BatchPoint(x, y, r, g, b, a, robotId, color) ==
    [x |-> x, y |-> y, r |-> r, g |-> g, b |-> b, a |-> a,
     robotId |-> robotId, color |-> color]

\* The grouping key of addPoints: point.robotId || 0.
GroupKey(p) == OrElse(p.robotId, 0)

\* The points of the batch with that key, latest first.
RECURSIVE GroupOfReversed(_, _)
GroupOfReversed(points, key) ==
    IF points = <<>> THEN <<>>
    ELSE IF GroupKey(Head(points)) = key
         THEN GroupOfReversed(Tail(points), key) \o <<Head(points)>>
         ELSE GroupOfReversed(Tail(points), key)

\* grouped[robotId]: the points of the batch with that key, in arrival order.
RECURSIVE GroupOf(_, _)
GroupOf(points, key) ==
    IF points = <<>> THEN <<>>
    ELSE IF GroupKey(Head(points)) = key
         THEN <<Head(points)>> \o GroupOf(Tail(points), key)
         ELSE GroupOf(Tail(points), key)

\* Object.entries(grouped): integer keys in ascending order.
RECURSIVE SortedKeys(_)
SortedKeys(keys) ==
    IF keys = {} THEN <<>>
    ELSE LET least == CHOOSE k \in keys : \A j \in keys : k <= j
         IN  <<least>> \o SortedKeys(keys \ {least})

RECURSIVE AddGroup(_, _, _)
AddGroup(st, robotId, robotPoints) ==
    IF robotPoints = <<>> THEN st
    ELSE LET p == Head(robotPoints)
         IN  AddGroup(addPoint(st, robotId, p.x, p.y,
                               IF p.color THEN <<p.r, p.g, p.b, p.a>> ELSE Null),
                      robotId, Tail(robotPoints))

RECURSIVE AddGroups(_, _, _)
AddGroups(st, keys, points) ==
    IF keys = <<>> THEN st
    ELSE AddGroups(AddGroup(st, Head(keys), GroupOf(points, Head(keys))),
                   Tail(keys), points)

addPoints(st, points) ==
    AddGroups(st, SortedKeys({GroupKey(points[i]) : i \in 1 .. Len(points)}), points)

clearRobotPath(st, robotId) ==
    IF Has(st, robotId)
    THEN Store([st.rs EXCEPT ![robotId] =
                    [@ EXCEPT !.pointCount = 0, !.startPosition = Null,
                              !.currentPosition = Null]],
               st.order)
    ELSE st

RECURSIVE ClearEach(_, _)
ClearEach(st, ids) ==
    IF ids = <<>> THEN st ELSE ClearEach(clearRobotPath(st, Head(ids)), Tail(ids))

clearAll(st) == ClearEach(st, st.order)

\* Infinity: above every finite number of the model.
PosInf == 2 ^ 30

BBox(minX, minY, maxX, maxY) == [minX |-> minX, minY |-> minY, maxX |-> maxX, maxY |-> maxY]

\* The inner loop of getBoundingBox over one entity, points i .. n-1 (0-based).
RECURSIVE ScanRobot(_, _, _, _)
ScanRobot(box, r, i, n) ==
    IF i >= n THEN box
    ELSE LET x == r.vertices[i * 2 + 1]
             y == r.vertices[i * 2 + 2]
         IN  ScanRobot(BBox(Min2(box.minX, x), Min2(box.minY, y),
                            Max2(box.maxX, x), Max2(box.maxY, y)), r, i + 1, n)

RECURSIVE ScanRobots(_, _, _)
ScanRobots(box, st, ids) ==
    IF ids = <<>> THEN box
    ELSE ScanRobots(ScanRobot(box, st.rs[Head(ids)], 0, st.rs[Head(ids)].pointCount),
                    st, Tail(ids))

SetMin(S) == CHOOSE v \in S : \A w \in S : v <= w
SetMax(S) == CHOOSE v \in S : \A w \in S : v >= w

\* Mutant of getBoundingBox: every slot of every buffer is scanned, the
\* evicted and cleared ones too.
getBoundingBoxAllSlots(st) ==
    LET xs == {st.rs[id].vertices[2 * i - 1] : id \in DOMAIN st.rs, i \in 1 .. maxPointsPerRobot}
        ys == {st.rs[id].vertices[2 * i] : id \in DOMAIN st.rs, i \in 1 .. maxPointsPerRobot}
    IN  IF xs = {} THEN BBox(PosInf, PosInf, -PosInf, -PosInf)
        ELSE BBox(SetMin(xs), SetMin(ys), SetMax(xs), SetMax(ys))

getBoundingBox(st) == ScanRobots(BBox(PosInf, PosInf, -PosInf, -PosInf), st, st.order)

(***************************************************************************)
(* Binary codec (data worker)                                              *)
(*                                                                         *)
(* An ArrayBuffer is its byteLength, the u32 at offset 0 (count) and the   *)
(* whole 32-bit words that follow the header (words); bytes after the last *)
(* whole word belong to no word.  A word is written as the number it reads *)
(* as a float; read byte-wise it gives that integer's base-256 digits (the *)
(* IEEE-754 relation between the two readings of a word is not followed).  *)
(***************************************************************************)
ArrayBuffer(byteLength, count, words) ==
    [byteLength |-> byteLength, count |-> count, words |-> words]

\* A worker point {x, y, r, g, b, a, robotId}.
Point(x, y, r, g, b, a, robotId) ==
    [x |-> x, y |-> y, r |-> r, g |-> g, b |-> b, a |-> a, robotId |-> robotId]

\* point.projX / point.projY: undefined (falsy) unless projectPoints set it.
ProjX(point) == IF "projX" \in DOMAIN point THEN point.projX ELSE 0
ProjY(point) == IF "projY" \in DOMAIN point THEN point.projY ELSE 0

\* The seven setFloat32 calls of pointsToArrayBuffer for one point.
EncodePoint(point) ==
    << F32(OrElse(point.x, OrElse(ProjX(point), 0))),
       F32(OrElse(point.y, OrElse(ProjY(point), 0))),
       F32(OrElse(point.r, One)),
       F32(OrElse(point.g, One)),
       F32(OrElse(point.b, One)),
       F32(OrElse(point.a, One)),
       F32(OrElse(point.robotId, 0)) >>

RECURSIVE EncodeAll(_)
EncodeAll(points) ==
    IF points = <<>> THEN <<>> ELSE EncodePoint(Head(points)) \o EncodeAll(Tail(points))

\* An encoder that allocates 24 bytes per point, the size of a point
\* without its robotId.
pointsToArrayBufferShort(points) ==
    ArrayBuffer(4 + Len(points) * 24, Len(points), EncodeAll(points))

pointsToArrayBuffer(points) ==
    ArrayBuffer(4 + Len(points) * 28, Len(points), EncodeAll(points))

\* DataView.getUint8 on byte k (0..3) of a word.
Byte(word, k) == (word \div (256 ^ k)) % 256

\* getUint8(...) / 255 (exact for the bytes 0, 51, 102, 153, 204, 255).
U8ToUnit(b) == (b * One) \div 255

\* Extended layout: point i (0-based) is words 7i+1 .. 7i+7.
ExtendedPoints(words, n) ==
    [i \in 1 .. n |->
        Point(words[7 * i - 6], words[7 * i - 5], words[7 * i - 4], words[7 * i - 3],
              words[7 * i - 2], words[7 * i - 1], words[7 * i])]

\* Legacy layout: point i is two floats and one word of four u8 channels.
LegacyPoints(words, n) ==
    [i \in 1 .. n |->
        Point(words[3 * i - 2], words[3 * i - 1],
              U8ToUnit(Byte(words[3 * i], 0)), U8ToUnit(Byte(words[3 * i], 1)),
              U8ToUnit(Byte(words[3 * i], 2)), U8ToUnit(Byte(words[3 * i], 3)), 0)]

\* What parseRawPoints did: threw (a RangeError left the function), or
\* returned points through the branch named by layout.
Parsed(threw, layout, points) == [threw |-> threw, layout |-> layout, points |-> points]

\* The same body with the 12-byte test made before the 28-byte test.
ParseBufferLegacyFirst(buffer) ==
    IF buffer.byteLength < 4
    THEN Parsed(TRUE, "none", <<>>)
    ELSE LET pointCount == buffer.count
             payloadBytes == buffer.byteLength - 4
         IN  IF payloadBytes = pointCount * 12
             THEN Parsed(FALSE, "legacy", LegacyPoints(buffer.words, pointCount))
             ELSE IF payloadBytes = pointCount * 28
             THEN Parsed(FALSE, "extended", ExtendedPoints(buffer.words, pointCount))
             ELSE IF payloadBytes % 4 # 0
             THEN Parsed(TRUE, "fallback", <<>>)
             ELSE Parsed(FALSE, "fallback",
                         ExtendedPoints(buffer.words, FloorDiv(Len(buffer.words), 7)))

\* The body shared by the Float32Array branch (on rawData.buffer) and the
\* ArrayBuffer branch of parseRawPoints.
ParseBuffer(buffer) ==
    IF buffer.byteLength < 4
    THEN \* view.getUint32(0, true) is out of bounds
         Parsed(TRUE, "none", <<>>)
    ELSE LET pointCount == buffer.count
             payloadBytes == buffer.byteLength - 4
         IN  IF payloadBytes = pointCount * 28
             THEN Parsed(FALSE, "extended", ExtendedPoints(buffer.words, pointCount))
             ELSE IF payloadBytes = pointCount * 12
             THEN Parsed(FALSE, "legacy", LegacyPoints(buffer.words, pointCount))
             ELSE IF payloadBytes % 4 # 0
             THEN \* new Float32Array(buffer, 4): length not a multiple of 4
                  Parsed(TRUE, "fallback", <<>>)
             ELSE Parsed(FALSE, "fallback",
                         ExtendedPoints(buffer.words, FloorDiv(Len(buffer.words), 7)))

\* rawData is [kind, ...]: "null" (falsy), "Float32Array" and "ArrayBuffer"
\* (with buffer), "Array" (with points), or "other".
parseRawPoints(rawData) ==
    CASE rawData.kind = "null" -> Parsed(FALSE, "none", <<>>)
      [] rawData.kind = "Float32Array" -> ParseBuffer(rawData.buffer)
      [] rawData.kind = "ArrayBuffer" -> ParseBuffer(rawData.buffer)
      [] rawData.kind = "Array" -> Parsed(FALSE, "json", rawData.points)
      [] OTHER -> Parsed(FALSE, "none", <<>>)

(***************************************************************************)
(* Data worker: the stages of processPoints                                *)
(*                                                                         *)
(* A transform is Null (absent) or [scale, translateX, translateY]; a      *)
(* scale of 0 stands for every falsy scale, the absent one included, and   *)
(* the other scales followed are positive.                                 *)
(***************************************************************************)
Transform(scale, translateX, translateY) ==
    [scale |-> scale, translateX |-> translateX, translateY |-> translateY]

\* projectPoints: every field kept, projX / projY added.
projectPoints(points, transform) ==
    [i \in 1 .. Len(points) |->
        [f \in DOMAIN points[i] \cup {"projX", "projY"} |->
            CASE f = "projX" -> points[i].x
              [] f = "projY" -> points[i].y
              [] OTHER -> points[i][f]]]

\* {...point, x, y}: the point with x and y replaced.
WithXY(point, x, y) ==
    [f \in DOMAIN point |->
        CASE f = "x" -> x
          [] f = "y" -> y
          [] OTHER -> point[f]]

\* A filter that drops the points on the border of the expanded rectangle.
cullPointsExclusive(points, viewBounds, transform) ==
    IF viewBounds = Null \/ transform = Null THEN points
    ELSE LET scale == OrElse(transform.scale, One)
             translateX == OrElse(transform.translateX, 0)
             translateY == OrElse(transform.translateY, 0)
             inside(point) ==
                 /\ point.x * scale > (viewBounds.left - translateX - N(50)) * One
                 /\ point.x * scale < (viewBounds.right - translateX + N(50)) * One
                 /\ point.y * scale > (viewBounds.top - translateY - N(50)) * One
                 /\ point.y * scale < (viewBounds.bottom - translateY + N(50)) * One
         IN  SelectSeq(points, inside)

\* viewBounds is Null or [left, top, right, bottom].  With scale > 0,
\*   point.x >= (left - translateX) / scale - 50 / scale
\* is compared after multiplying both sides by scale.
cullPoints(points, viewBounds, transform) ==
    IF viewBounds = Null \/ transform = Null THEN points
    ELSE LET scale == OrElse(transform.scale, One)
             translateX == OrElse(transform.translateX, 0)
             translateY == OrElse(transform.translateY, 0)
             inside(point) ==
                 /\ point.x * scale >= (viewBounds.left - translateX - N(50)) * One
                 /\ point.x * scale <= (viewBounds.right - translateX + N(50)) * One
                 /\ point.y * scale >= (viewBounds.top - translateY - N(50)) * One
                 /\ point.y * scale <= (viewBounds.bottom - translateY + N(50)) * One
         IN  SelectSeq(points, inside)

\* points.length below which applyLOD returns its input (100 in the source).
LodMinPoints == 2

\* Math.log(count) in twentieths (to the nearest twentieth up to 8 points,
\* and by powers of two beyond).
RECURSIVE LnUnits(_)
LnUnits(count) ==
    CASE count <= 1 -> 0
      [] count = 2 -> 14
      [] count = 3 -> 22
      [] count = 4 -> 28
      [] count = 5 -> 32
      [] count = 6 -> 36
      [] count = 7 -> 39
      [] count = 8 -> 42
      [] OTHER -> 14 + LnUnits(count \div 2)

\* Math.floor(p.x / cellSize) with cellSize = 2 * lodThreshold / scale.
\* Cells half as wide as the merge distance.
CellOfNarrow(v, lodThreshold, scale) == FloorDiv(2 * v * scale, lodThreshold * One)

\* Math.floor(v * scale / gridSize) with gridSize = lodThreshold * 2.
CellOf(v, lodThreshold, scale) == FloorDiv(v * scale, 2 * lodThreshold * One)

CellKey(point, lodThreshold, scale) ==
    <<CellOf(point.x, lodThreshold, scale), CellOf(point.y, lodThreshold, scale)>>

\* A test every candidate of the searched cells passes.
WithinMergeAlways(point, other, lodThreshold, scale) == TRUE

\* distSq <= mergeDistanceSq with mergeDistance = lodThreshold / scale.
WithinMerge(point, other, lodThreshold, scale) ==
    ((point.x - other.x) * (point.x - other.x) + (point.y - other.y) * (point.y - other.y))
        * scale * scale
      <= lodThreshold * lodThreshold * One * One

\* grid.values(): the cell keys in the order their first point arrives.
RECURSIVE CellOrder(_, _, _, _)
CellOrder(points, i, lodThreshold, scale) ==
    IF i > Len(points) THEN <<>>
    ELSE LET rest == CellOrder(points, i + 1, lodThreshold, scale)
             key == CellKey(points[i], lodThreshold, scale)
         IN  <<key>> \o SelectSeq(rest, LAMBDA k : k # key)

\* The indices of one cell, ascending.
CellIndices(points, key, lodThreshold, scale) ==
    SelectSeq([i \in 1 .. Len(points) |-> i],
              LAMBDA i : CellKey(points[i], lodThreshold, scale) = key)

\* A search that finds only the seed's own cell populated: the other eight
\* keys lie far outside the grid.
NeighboursOwnCell(key) ==
    [n \in 1 .. 9 |-> IF n = 5 THEN key ELSE <<key[1] + 1000 * n, key[2]>>]

\* The nine neighbour keys in the order of the dx, dy loops.
Neighbours(key) ==
    << <<key[1] - 1, key[2] - 1>>, <<key[1] - 1, key[2]>>, <<key[1] - 1, key[2] + 1>>,
       <<key[1], key[2] - 1>>, <<key[1], key[2]>>, <<key[1], key[2] + 1>>,
       <<key[1] + 1, key[2] - 1>>, <<key[1] + 1, key[2]>>, <<key[1] + 1, key[2] + 1>> >>

RECURSIVE Concat(_)
Concat(seqs) == IF seqs = <<>> THEN <<>> ELSE Head(seqs) \o Concat(Tail(seqs))

\* A cluster that takes the points near its seed whether or not an earlier
\* cluster holds them.
ClusterOfShared(points, i, processed, lodThreshold, scale) ==
    LET keys == Neighbours(CellKey(points[i], lodThreshold, scale))
        cand == Concat([n \in 1 .. 9 |-> CellIndices(points, keys[n], lodThreshold, scale)])
    IN  <<i>> \o SelectSeq(cand, LAMBDA j :
                    /\ j # i
                    /\ WithinMerge(points[i], points[j], lodThreshold, scale))

\* The members of the cluster seeded by point i: i, then every unprocessed j
\* of the 3x3 cells within the merge distance of the seed.
ClusterOf(points, i, processed, lodThreshold, scale) ==
    LET keys == Neighbours(CellKey(points[i], lodThreshold, scale))
        cand == Concat([n \in 1 .. 9 |-> CellIndices(points, keys[n], lodThreshold, scale)])
    IN  <<i>> \o SelectSeq(cand, LAMBDA j :
                    /\ j # i
                    /\ j \notin processed
                    /\ WithinMerge(points[i], points[j], lodThreshold, scale))

\* The centroid pushed for a cluster (a sequence of indices, seed first).
\* A mean is rounded down to a twentieth.
Centroid(points, cluster) ==
    LET count == Len(cluster)
        sum(f) == SeqSum([k \in 1 .. count |-> points[cluster[k]][f]])
    IN  Point(sum("x") \div count, sum("y") \div count,
              sum("r") \div count, sum("g") \div count, sum("b") \div count,
              Min2(One, ((sum("a") \div count) * (10 * One + LnUnits(count))) \div (10 * One)),
              OrElse(points[cluster[1]].robotId, 0))

\* The clustering loops over the indices in grid order.
RECURSIVE LodLoop(_, _, _, _, _)
LodLoop(points, todo, processed, lodThreshold, scale) ==
    IF todo = <<>> THEN <<>>
    ELSE LET i == Head(todo)
         IN  IF i \in processed
             THEN LodLoop(points, Tail(todo), processed, lodThreshold, scale)
             ELSE LET cluster == ClusterOf(points, i, processed, lodThreshold, scale)
                      members == {cluster[k] : k \in 1 .. Len(cluster)}
                  IN  <<Centroid(points, cluster)>>
                      \o LodLoop(points, Tail(todo), processed \cup members,
                                 lodThreshold, scale)

\* The clusters the loops build, in the order their centroids are pushed;
\* each is a sequence of indices, seed first.
RECURSIVE LodClusters(_, _, _, _, _)
LodClusters(points, todo, processed, lodThreshold, scale) ==
    IF todo = <<>> THEN <<>>
    ELSE LET i == Head(todo)
         IN  IF i \in processed
             THEN LodClusters(points, Tail(todo), processed, lodThreshold, scale)
             ELSE LET cluster == ClusterOf(points, i, processed, lodThreshold, scale)
                      members == {cluster[k] : k \in 1 .. Len(cluster)}
                  IN  <<cluster>>
                      \o LodClusters(points, Tail(todo), processed \cup members,
                                     lodThreshold, scale)

\* The indices in the order the outer loops visit them: cell by cell.
GridOrder(points, lodThreshold, scale) ==
    LET cells == CellOrder(points, 1, lodThreshold, scale)
    IN  Concat([c \in 1 .. Len(cells) |->
                   CellIndices(points, cells[c], lodThreshold, scale)])

\* The grid merge run on every batch, whatever its length and the scale.
applyLODAlways(points, scale, lodThreshold) ==
    LET cells == CellOrder(points, 1, lodThreshold, scale)
        todo == Concat([c \in 1 .. Len(cells) |->
                           CellIndices(points, cells[c], lodThreshold, scale)])
    IN  LodLoop(points, todo, {}, lodThreshold, scale)

\* applyLOD(points, scale) under config.lodThreshold; 0.5 is One \div 2.
applyLOD(points, scale, lodThreshold) ==
    IF Len(points) < LodMinPoints \/ 2 * scale > One
    THEN points
    ELSE LET cells == CellOrder(points, 1, lodThreshold, scale)
             todo == Concat([c \in 1 .. Len(cells) |->
                                CellIndices(points, cells[c], lodThreshold, scale)])
         IN  LodLoop(points, todo, {}, lodThreshold, scale)

\* quantizePoints: Math.round(v / 0.5) * 0.5.
Quantize(v) == RoundDiv(v, One \div 2) * (One \div 2)

quantizePoints(points) ==
    [i \in 1 .. Len(points) |-> WithXY(points[i], Quantize(points[i].x), Quantize(points[i].y))]

\* Math.round(v * scale) / scale, the quotient rounded down to a twentieth
\* (exact for the scales 2, 4, 5, 10, 20).
Align(v, scale) == (RoundDiv(v * scale, One * One) * One * One) \div scale

pixelAlign(points, transform) ==
    IF transform = Null THEN points
    ELSE LET scale == OrElse(transform.scale, One)
         IN  IF scale < N(2) THEN points
             ELSE [i \in 1 .. Len(points) |->
                      WithXY(points[i], Align(points[i].x, scale), Align(points[i].y, scale))]

(***************************************************************************)
(* Data worker: state and message handler                                  *)
(***************************************************************************)
\* config.maxPoints at start-up (200000 in the source).
DefaultMaxPoints == 3

Config(lodThreshold, viewBounds, maxPoints, enableLOD, enableCulling, enableQuantization) ==
    [lodThreshold |-> lodThreshold, viewBounds |-> viewBounds, maxPoints |-> maxPoints,
     enableLOD |-> enableLOD, enableCulling |-> enableCulling,
     enableQuantization |-> enableQuantization]

\* The module-level state of the worker: config, pointCache, totalPoints.
Worker(config, pointCache, totalPoints) ==
    [config |-> config, pointCache |-> pointCache, totalPoints |-> totalPoints]

NewWorker == Worker(Config(N(2), Null, DefaultMaxPoints, TRUE, TRUE, TRUE), <<>>, 0)

\* What one run of the handler did: the state it leaves, the messages it
\* posted, and whether an exception left it.
Handled(w, out, threw) == [w |-> w, out |-> out, threw |-> threw]

\* A config message that is dropped.
updateConfigIgnored(w, newConfig) == w

\* A merge in which a field keeps the first value written over its default.
updateConfigFirstWins(w, newConfig) ==
    [w EXCEPT !.config =
        [f \in DOMAIN w.config |->
            IF f \in DOMAIN newConfig /\ w.config[f] = NewWorker.config[f]
            THEN newConfig[f] ELSE w.config[f]]]

\* config = { ...config, ...newConfig }
updateConfig(w, newConfig) ==
    [w EXCEPT !.config =
        [f \in DOMAIN w.config \cup DOMAIN newConfig |->
            IF f \in DOMAIN newConfig THEN newConfig[f] ELSE w.config[f]]]

\* The slice taken from the front: the oldest maxPoints points.
SliceFirst(cache, maxPoints) == SubSeq(cache, 1, Min2(Len(cache), maxPoints))

\* pointCache.slice(-maxPoints); slice(-0) is slice(0), the whole array.
SliceLast(cache, maxPoints) ==
    IF maxPoints = 0 THEN cache ELSE LastN(cache, maxPoints)

Stats(inputPoints, outputPoints, total) ==
    [inputPoints |-> inputPoints, outputPoints |-> outputPoints, totalPoints |-> total]

ProcessedMsg(data, stats) == [type |-> "processed", data |-> data, stats |-> stats]

ClearedMsg == [type |-> "cleared", stats |-> [totalPoints |-> 0]]

\* The stages with the LOD merge run only on a batch that was culled.
PipelineLodAfterCull(config, points, transform) ==
    LET projected == projectPoints(points, transform)
        culls == config.enableCulling /\ config.viewBounds # Null
        culled == IF culls THEN cullPoints(projected, config.viewBounds, transform)
                  ELSE projected
        scale == IF transform # Null /\ transform.scale # 0 THEN transform.scale ELSE One
        merged == IF culls /\ config.enableLOD
                  THEN applyLOD(culled, scale, config.lodThreshold)
                  ELSE culled
        quantized == IF config.enableQuantization THEN quantizePoints(merged) ELSE merged
    IN  pixelAlign(quantized, transform)

\* The stages between decode and encode, under one config.
Pipeline(config, points, transform) ==
    LET projected == projectPoints(points, transform)
        culled == IF config.enableCulling /\ config.viewBounds # Null
                  THEN cullPoints(projected, config.viewBounds, transform)
                  ELSE projected
        scale == IF transform # Null /\ transform.scale # 0 THEN transform.scale ELSE One
        merged == IF config.enableLOD
                  THEN applyLOD(culled, scale, config.lodThreshold)
                  ELSE culled
        quantized == IF config.enableQuantization THEN quantizePoints(merged) ELSE merged
    IN  pixelAlign(quantized, transform)

\* An exception that leaves the handler after dropping the accumulator.
ThrownReset(w) == Handled(Worker(w.config, <<>>, 0), <<>>, TRUE)

\* An exception raised before the first assignment leaves the handler: the
\* state is as it was and nothing is posted.
Thrown(w) == Handled(w, <<>>, TRUE)

\* A return that first answers with an empty batch.
ReturnedEmptyBatch(w) ==
    Handled(w, <<[type |-> "processed", data |-> pointsToArrayBuffer(<<>>),
                  stats |-> [inputPoints |-> 0, outputPoints |-> 0,
                             totalPoints |-> w.totalPoints]]>>, FALSE)

\* The early return of processPoints: nothing assigned, nothing posted.
Returned(w) == Handled(w, <<>>, FALSE)

processPoints(w, rawPoints, transform) ==
    LET parsed == parseRawPoints(rawPoints)
        points == parsed.points
    IN  IF parsed.threw THEN Thrown(w)
        ELSE IF Len(points) = 0 THEN Returned(w)
        ELSE LET pushed == w.pointCache \o points
                 total == Len(pushed)
                 cache == IF Len(pushed) > w.config.maxPoints
                          THEN SliceLast(pushed, w.config.maxPoints)
                          ELSE pushed
                 processedPoints == Pipeline(w.config, points, transform)
                 buffer == pointsToArrayBuffer(processedPoints)
             IN  Handled(Worker(w.config, cache, total),
                         <<ProcessedMsg(buffer,
                                        Stats(Len(points), Len(processedPoints), total))>>,
                         FALSE)

\* A clear that answers but keeps what was accumulated.
clearCacheKeep(w) == Handled(w, <<ClearedMsg>>, FALSE)

clearCache(w) == Handled(Worker(w.config, <<>>, 0), <<ClearedMsg>>, FALSE)

\* self.onmessage: a message is [type, ...]; 'config' carries params (the
\* fields left after type, points and transform), 'process' carries points
\* and transform.
WorkerOnMessage(w, msg) ==
    CASE msg.type = "config" -> Handled(updateConfig(w, msg.params), <<>>, FALSE)
      [] msg.type = "process" -> processPoints(w, msg.points, msg.transform)
      [] msg.type = "clear" -> clearCache(w)
      [] OTHER -> Handled(w, <<>>, FALSE)

(***************************************************************************)
(* Renderer: WebGLRenderer                                                 *)
(***************************************************************************)
\* Math.floor of a number.
Floor(v) == FloorDiv(v, One) * One

\* The sentinel of dataBounds.
NoBounds ==
    [minX |-> PosInf, maxX |-> -PosInf, minY |-> PosInf, maxY |-> -PosInf,
     initialized |-> FALSE]

\* The renderer's fields that updatePoints, clear, the packer and a frame use.
Renderer(st, bounds, needs, dirty, draws, total, pos, col) ==
    [robotManager |-> st, dataBounds |-> bounds, needsPack |-> needs,
     gpuDirty |-> dirty, packedDraws |-> draws, packedTotal |-> total,
     stagingPos |-> pos, stagingColorU8 |-> col]

NewRenderer ==
    Renderer(EmptyStore, NoBounds, FALSE, FALSE, <<>>, 0,
             Zeros(MAX_POINTS * 2), Zeros(MAX_POINTS * 4))

\* The point objects updatePoints builds from a processed buffer.
ReadPoints(data) ==
    [i \in 1 .. data.count |->
        BatchPoint(data.words[7 * i - 6], data.words[7 * i - 5], data.words[7 * i - 4],
                   data.words[7 * i - 3], data.words[7 * i - 2], data.words[7 * i - 1],
                   Floor(data.words[7 * i]), FALSE)]

updatePoints(rd, data) ==
    IF data.count = 0 THEN rd
    ELSE LET st == addPoints(rd.robotManager, ReadPoints(data))
             bounds == getBoundingBox(st)
         IN  [rd EXCEPT !.robotManager = st,
                        !.dataBounds =
                            IF bounds.minX # PosInf
                            THEN [minX |-> bounds.minX, maxX |-> bounds.maxX,
                                  minY |-> bounds.minY, maxY |-> bounds.maxY,
                                  initialized |-> TRUE]
                            ELSE @,
                        !.needsPack = TRUE]

\* getActiveRobots(): the records in Map order whose isActive is set.
RECURSIVE ActiveOf(_, _)
ActiveOf(st, ids) ==
    IF ids = <<>> THEN <<>>
    ELSE (IF st.rs[Head(ids)].isActive THEN <<st.rs[Head(ids)]>> ELSE <<>>)
         \o ActiveOf(st, Tail(ids))

getActiveRobots(st) == ActiveOf(st, st.order)

RECURSIVE TotalCount(_)
TotalCount(robots) ==
    IF robots = <<>> THEN 0 ELSE Head(robots).pointCount + TotalCount(Tail(robots))

\* Math.min(255, Math.max(0, Math.round(c * 255))).
ToU8(c) == Min2(255, Max2(0, RoundDiv(c * 255, One)))

\* A packer that never caps an entity.
PerCapUnlimited(total, n) == PosInf

\* perCap of the packer; PosInf stands for Infinity.
PerCap(total, n) ==
    IF total > MAX_POINTS
    THEN Max2(1, FloorDiv(MAX_POINTS, Max2(1, n)))
    ELSE PosInf

\* Mutant of KeepFrom: the slice starts at the oldest point.
KeepFromHead(count, keep) == 0

\* The first point (0-based) of the slice the packer keeps.
KeepFrom(count, keep) == count - keep

\* arr.set(src, offset) / element-wise writes of n values from src[from ..].
CopyInto(arr, offset, src, from, n) ==
    [i \in 1 .. Len(arr) |->
        IF i > offset /\ i <= offset + n THEN src[from + (i - offset)] ELSE arr[i]]

\* The colours of n points from src[from ..], each channel through ToU8.
CopyColors(arr, offset, src, from, n) ==
    [i \in 1 .. Len(arr) |->
        IF i > offset /\ i <= offset + n THEN ToU8(src[from + (i - offset)]) ELSE arr[i]]

\* The second loop of _packRobotsToStaging; acc.stop is the break.
RECURSIVE PackLoop(_, _, _)
PackLoop(acc, robots, perCap) ==
    IF robots = <<>> \/ acc.stop THEN acc
    ELSE LET r == Head(robots)
             count == r.pointCount
         IN  IF count <= 0
             THEN PackLoop([acc EXCEPT !.draws = Append(@, [start |-> acc.write, count |-> 0])],
                           Tail(robots), perCap)
             ELSE LET keep == IF perCap = PosInf THEN count ELSE Min2(count, perCap)
                      from == KeepFrom(count, keep)
                      write == acc.write + keep
                  IN  PackLoop(
                          [write |-> write,
                           draws |-> Append(acc.draws, [start |-> acc.write, count |-> keep]),
                           pos |-> CopyInto(acc.pos, acc.write * 2, r.vertices, from * 2, keep * 2),
                           col |-> CopyColors(acc.col, acc.write * 4, r.colors, from * 4, keep * 4),
                           stop |-> write >= MAX_POINTS],
                          Tail(robots), perCap)

packRobotsToStaging(rd) ==
    LET robots == getActiveRobots(rd.robotManager)
        perCap == PerCap(TotalCount(robots), Len(robots))
        out == PackLoop([write |-> 0, draws |-> <<>>, pos |-> rd.stagingPos,
                         col |-> rd.stagingColorU8, stop |-> FALSE], robots, perCap)
    IN  [rd EXCEPT !.packedDraws = out.draws, !.packedTotal = out.write,
                   !.stagingPos = out.pos, !.stagingColorU8 = out.col,
                   !.needsPack = FALSE]

\* The GPU side: the two vertex buffers and the draw calls of the last frame.
Gpu(pos, col, calls) == [position |-> pos, color |-> col, drawCalls |-> calls]

NewGpu == Gpu(Zeros(MAX_POINTS * 2), Zeros(MAX_POINTS * 4), <<>>)

\* gl.bufferSubData(target, 0, src.subarray(0, n)).
BufferSubData(buf, src, n) == [i \in 1 .. Len(buf) |-> IF i <= n THEN src[i] ELSE buf[i]]

\* The draw loop: one LINE_STRIP per range of more than one point.
DrawCalls(draws) == SelectSeq(draws, LAMBDA seg : seg.count > 1)

\* A frame that uploads the staging arrays whenever they hold points.
renderRobotPathsUploadEachFrame(rd, gpu) ==
    IF Len(getActiveRobots(rd.robotManager)) = 0 \/ ~rd.dataBounds.initialized
    THEN [rd |-> rd, gpu |-> [gpu EXCEPT !.drawCalls = <<>>],
          packed |-> FALSE, uploaded |-> FALSE]
    ELSE LET rd1 == IF rd.needsPack
                    THEN [packRobotsToStaging(rd) EXCEPT !.gpuDirty = TRUE]
                    ELSE rd
             upload == rd1.packedTotal > 0
             rd2 == IF upload THEN [rd1 EXCEPT !.gpuDirty = FALSE] ELSE rd1
         IN  [rd |-> rd2,
              gpu |-> Gpu(IF upload
                          THEN BufferSubData(gpu.position, rd1.stagingPos, rd1.packedTotal * 2)
                          ELSE gpu.position,
                          IF upload
                          THEN BufferSubData(gpu.color, rd1.stagingColorU8, rd1.packedTotal * 4)
                          ELSE gpu.color,
                          DrawCalls(rd1.packedDraws)),
              packed |-> rd.needsPack, uploaded |-> upload]

\* A frame that draws whether or not dataBounds is initialized.
renderRobotPathsUnguarded(rd, gpu) ==
    IF Len(getActiveRobots(rd.robotManager)) = 0
    THEN [rd |-> rd, gpu |-> [gpu EXCEPT !.drawCalls = <<>>],
          packed |-> FALSE, uploaded |-> FALSE]
    ELSE LET rd1 == IF rd.needsPack
                    THEN [packRobotsToStaging(rd) EXCEPT !.gpuDirty = TRUE]
                    ELSE rd
             upload == rd1.gpuDirty /\ rd1.packedTotal > 0
             rd2 == IF upload THEN [rd1 EXCEPT !.gpuDirty = FALSE] ELSE rd1
         IN  [rd |-> rd2,
              gpu |-> Gpu(IF upload
                          THEN BufferSubData(gpu.position, rd1.stagingPos, rd1.packedTotal * 2)
                          ELSE gpu.position,
                          IF upload
                          THEN BufferSubData(gpu.color, rd1.stagingColorU8, rd1.packedTotal * 4)
                          ELSE gpu.color,
                          DrawCalls(rd1.packedDraws)),
              packed |-> rd.needsPack, uploaded |-> upload]

\* renderRobotPaths on the pair (renderer, gpu); packed and uploaded tell
\* whether _packRobotsToStaging and gl.bufferSubData were called.
renderRobotPaths(rd, gpu) ==
    IF Len(getActiveRobots(rd.robotManager)) = 0 \/ ~rd.dataBounds.initialized
    THEN [rd |-> rd, gpu |-> [gpu EXCEPT !.drawCalls = <<>>],
          packed |-> FALSE, uploaded |-> FALSE]
    ELSE LET rd1 == IF rd.needsPack
                    THEN [packRobotsToStaging(rd) EXCEPT !.gpuDirty = TRUE]
                    ELSE rd
             upload == rd1.gpuDirty /\ rd1.packedTotal > 0
             rd2 == IF upload THEN [rd1 EXCEPT !.gpuDirty = FALSE] ELSE rd1
         IN  [rd |-> rd2,
              gpu |-> Gpu(IF upload
                          THEN BufferSubData(gpu.position, rd1.stagingPos, rd1.packedTotal * 2)
                          ELSE gpu.position,
                          IF upload
                          THEN BufferSubData(gpu.color, rd1.stagingColorU8, rd1.packedTotal * 4)
                          ELSE gpu.color,
                          DrawCalls(rd1.packedDraws)),
              packed |-> rd.needsPack, uploaded |-> upload]

\* robotManager.getTotalPoints(): render() calls it for its log line; the
\* class as given does not define it, and it is taken to be the getter its
\* name says, the number of points stored.
getTotalPoints(st) == TotalCount([i \in 1 .. Len(st.order) |-> st.rs[st.order[i]]])

\* render(): the path branch is taken when the store tracks an entity; the
\* total is read for logging only.
render(rd, gpu) ==
    LET totalPoints == getTotalPoints(rd.robotManager)
    IN  IF Len(getActiveRobots(rd.robotManager)) > 0
        THEN renderRobotPaths(rd, gpu)
        ELSE [rd |-> rd, gpu |-> [gpu EXCEPT !.drawCalls = <<>>],
              packed |-> FALSE, uploaded |-> FALSE]

\* clear().
clear(rd) ==
    [rd EXCEPT !.robotManager = clearAll(@), !.dataBounds = NoBounds]

(***************************************************************************)
(* Simulator worker: RealRobotSimulator                                    *)
(***************************************************************************)
\* Points per robot and push (pointsPerMessage, 10 in App.vue) and the
\* number of points after which the simulator stops itself (100000).
pointsPerPush == 1
SimLimit == 2

\* The seven setFloat32 calls of pointsToBuffer for one point.
SimEncodePoint(point) ==
    << F32(point.x), F32(point.y), F32(point.r), F32(point.g), F32(point.b),
       F32(point.a), F32(point.robotId) >>

RECURSIVE SimEncodeAll(_)
SimEncodeAll(points) ==
    IF points = <<>> THEN <<>>
    ELSE SimEncodePoint(Head(points)) \o SimEncodeAll(Tail(points))

pointsToBuffer(points) ==
    ArrayBuffer(4 + Len(points) * 28, Len(points), SimEncodeAll(points))

\* The simulator: isRunning and totalPointsSent (one robot, id 0).
Sim(isRunning, totalPointsSent) ==
    [isRunning |-> isRunning, totalPointsSent |-> totalPointsSent]

NewSim == Sim(FALSE, 0)

\* generateNextPoints for the one robot.  Its motion is random in the source;
\* the model follows the trajectory that starts at (450, 300), the centre of
\* the 800 x 600 canvas plus the start radius, and advances one unit in x per
\* point.  The colour is hslToRgb(0, 80, 50) / 255 and a = 0.9, to the
\* nearest twentieth.
generateNextPoints(sm) ==
    [i \in 1 .. pointsPerPush |->
        Point(N(450 + sm.totalPointsSent + i), N(300), 18, 2, 2, 18, 0)]

start(sm) == IF sm.isRunning THEN sm ELSE Sim(TRUE, 0)

stop(sm) == IF ~sm.isRunning THEN sm ELSE Sim(FALSE, sm.totalPointsSent)

\* self.onmessage of the simulator worker, the simulator being constructed;
\* a 'config' message that changes neither the interval nor the robot count
\* changes nothing the model follows.
SimOnMessage(sm, msg) ==
    CASE msg.type = "start" -> start(sm)
      [] msg.type = "stop" -> stop(sm)
      [] OTHER -> sm

\* The setInterval callback: [sm, out], out being the buffers posted.
SimInterval(sm) ==
    IF ~sm.isRunning THEN [sm |-> sm, out |-> <<>>]
    ELSE LET points == generateNextPoints(sm)
             sent == Sim(TRUE, sm.totalPointsSent + Len(points))
         IN  [sm |-> IF sent.totalPointsSent >= SimLimit THEN stop(sent) ELSE sent,
              out |-> <<pointsToBuffer(points)>>]

(***************************************************************************)
(* Main thread: App.vue                                                    *)
(***************************************************************************)
\* The main thread's flags, stats.totalPoints and the lodThreshold ref.
App(isSimulating, clearAwaiting, resumeAfterClear, totalPoints, lodThreshold) ==
    [isSimulating |-> isSimulating, clearAwaiting |-> clearAwaiting,
     resumeAfterClear |-> resumeAfterClear, totalPoints |-> totalPoints,
     lodThreshold |-> lodThreshold]

NewApp == App(FALSE, FALSE, FALSE, 0, N(2))

\* viewTransform, which the model leaves at its initial value.
viewTransform == Transform(One, 0, 0)

\* The 'config' message initWorker posts (robotCount is 1).
InitialConfig ==
    [type |-> "config",
     params |-> [lodThreshold |-> N(2),
                 viewBounds |-> [left |-> 0, top |-> 0, right |-> N(800), bottom |-> N(600)],
                 maxPoints |-> DefaultMaxPoints,
                 enableLOD |-> TRUE,
                 enableCulling |-> FALSE]]

\* What a main-thread handler did: the flags, the renderer, and the messages
\* posted to the simulator and to the data worker.
MainStep(ap, rd, toSim, toWorker) ==
    [app |-> ap, rd |-> rd, toSim |-> toSim, toWorker |-> toWorker]

toggleSimulation(ap, rd) ==
    IF ~ap.isSimulating
    THEN MainStep([ap EXCEPT !.isSimulating = TRUE], rd,
                  <<[type |-> "config"], [type |-> "start"]>>, <<>>)
    ELSE MainStep([ap EXCEPT !.isSimulating = FALSE], rd, <<[type |-> "stop"]>>, <<>>)

clearPoints(ap, rd) ==
    LET wasRunning == ap.isSimulating
    IN  MainStep(App(FALSE, TRUE, wasRunning, 0, ap.lodThreshold), clear(rd),
                 IF wasRunning THEN <<[type |-> "stop"]>> ELSE <<>>,
                 <<[type |-> "clear"]>>)

\* The LOD slider: v-model.number assigns the lodThreshold ref; no handler
\* is bound to the control and no watcher follows the ref.
setLodThreshold(ap, rd, value) ==
    MainStep([ap EXCEPT !.lodThreshold = value], rd, <<>>, <<>>)

\* The render loop's performance state.  Time is counted in quarters of a
\* second and a frame rate in frames per sample, so that the band of 40 to
\* 50 frames per second becomes 2 to 3 frames per sample.
SamplePeriod == 4
FpsLow == 2
FpsHigh == 3
adaptiveAdjustCooldown == 8

\* frameCount, fpsUpdateTime, adaptiveLowCount, adaptiveHighCount,
\* currentCulling and lastAdaptiveAdjustTime; clock is performance.now();
\* samples (the sides of the last three FPS samples: "low", "band", "high")
\* and sent (the times of the adaptive 'config' messages) are history.
Perf(frameCount, fpsUpdateTime, adaptiveLowCount, adaptiveHighCount, currentCulling, lastAdaptiveAdjustTime, clock, samples, sent) ==
    [frameCount |-> frameCount, fpsUpdateTime |-> fpsUpdateTime,
     adaptiveLowCount |-> adaptiveLowCount, adaptiveHighCount |-> adaptiveHighCount,
     currentCulling |-> currentCulling, lastAdaptiveAdjustTime |-> lastAdaptiveAdjustTime,
     clock |-> clock, samples |-> samples, sent |-> sent]

NewPerf == Perf(0, 0, 0, 0, FALSE, 0, 0, <<>>, <<>>)

\* A counter that lets one sample trigger an adjustment.
enoughSamplesOne(count) == count >= 1

\* adaptiveLowCount >= 3, adaptiveHighCount >= 3
enoughSamples(count) == count >= 3

\* What updatePerformanceStats did: the flags, the performance state and the
\* messages posted to the data worker.
PerfStep(ap, pf, toWorker) == [app |-> ap, pf |-> pf, toWorker |-> toWorker]

\* updatePerformanceStats(timestamp), with now the value performance.now()
\* returns at the cooldown check.
updatePerformanceStats(ap, pf, timestamp, now) ==
    LET counted == pf.frameCount + 1
    IN  IF timestamp - pf.fpsUpdateTime < SamplePeriod
        THEN PerfStep(ap, [pf EXCEPT !.frameCount = counted, !.clock = now], <<>>)
        ELSE
    LET fps == counted
        side == IF fps < FpsLow THEN "low" ELSE IF fps > FpsHigh THEN "high" ELSE "band"
        lowCount == IF side = "low" THEN pf.adaptiveLowCount + 1 ELSE 0
        highCount == IF side = "high" THEN pf.adaptiveHighCount + 1 ELSE 0
        pf1 == [pf EXCEPT !.frameCount = 0, !.fpsUpdateTime = timestamp,
                          !.adaptiveLowCount = lowCount, !.adaptiveHighCount = highCount,
                          !.clock = now,
                          !.samples = IF Len(@) < 3 THEN Append(@, side)
                                      ELSE Append(Tail(@), side)]
    IN  IF now - pf.lastAdaptiveAdjustTime < adaptiveAdjustCooldown
        THEN PerfStep(ap, pf1, <<>>)
        ELSE
    LET raise == enoughSamples(lowCount)
        lower == ~raise /\ enoughSamples(highCount)
        next == IF raise THEN Min2(N(10), ap.lodThreshold + One \div 2)
                ELSE IF lower THEN Max2(N(1), ap.lodThreshold - One \div 2)
                ELSE ap.lodThreshold
        culling == IF raise THEN TRUE ELSE IF lower THEN FALSE ELSE pf.currentCulling
        changed == next # ap.lodThreshold \/ culling # pf.currentCulling
        pf2 == [pf1 EXCEPT !.adaptiveLowCount = IF raise THEN 0 ELSE @,
                           !.adaptiveHighCount = IF lower THEN 0 ELSE @,
                           !.currentCulling = culling,
                           !.lastAdaptiveAdjustTime = IF changed THEN now ELSE @,
                           !.sent = IF changed THEN Append(@, now) ELSE @]
    IN  PerfStep([ap EXCEPT !.lodThreshold = next], pf2,
                 IF changed
                 THEN <<[type |-> "config",
                         params |-> [lodThreshold |-> next, enableCulling |-> culling]]>>
                 ELSE <<>>)

\* simulatorWorker.onmessage: the buffer is forwarded as a Float32Array.
SimulatorOnMessage(ap, rd, pointsBuffer) ==
    MainStep(ap, rd, <<>>,
             <<[type |-> "process",
                points |-> [kind |-> "Float32Array", buffer |-> pointsBuffer],
                transform |-> viewTransform]>>)

\* dataWorker.onmessage
DataWorkerOnMessage(ap, rd, msg) ==
    CASE msg.type = "processed" ->
             IF ap.clearAwaiting THEN MainStep(ap, rd, <<>>, <<>>)
             ELSE MainStep([ap EXCEPT !.totalPoints = msg.stats.totalPoints],
                           updatePoints(rd, msg.data), <<>>, <<>>)
      [] msg.type = "cleared" ->
             MainStep(App(ap.isSimulating \/ ap.resumeAfterClear, FALSE, FALSE, 0, ap.lodThreshold),
                      rd,
                      IF ap.resumeAfterClear THEN <<[type |-> "start"]>> ELSE <<>>,
                      <<>>)
      [] OTHER -> MainStep(ap, rd, <<>>, <<>>)

(***************************************************************************)
(* State                                                                   *)
(***************************************************************************)
VARIABLES
    store,      \* the RobotPathManager: its robots Map (records and insertion order)
    hist,       \* history: per id, the points appended since the entity was last empty
    nOps,       \* history: calls made so far
    renderer,   \* the WebGLRenderer, its RobotPathManager included
    gpu,        \* the GPU vertex buffers and the draw calls of the last frame
    codecIn,    \* the codec's input: a point list to encode, or raw data to decode
    codecOut,   \* what parseRawPoints made of it (Null before the call)
    stageIn,    \* the input of one pipeline stage called on its own
    stageOut,   \* what the stage returned (Null before the call)
    worker,     \* the data worker's config, pointCache and totalPoints
    workerIn,   \* messages posted to the data worker and not yet handled
    workerOut,  \* messages posted by the data worker and not yet handled
    workerLog,  \* history: per handled message, the state before and after and the replies
    app,        \* the main thread's flags
    sim,        \* the simulator worker's simulator
    simIn,      \* messages posted to the simulator worker and not yet handled
    simOut,     \* buffers posted by the simulator worker and not yet handled
    accessLog,  \* history: the buffer accesses and hand-offs of all threads, in order
    pendingClears, \* history: 'clear' requests posted whose 'cleared' has not been handled
    perf,       \* the render loop's frame counters, clock and adaptive-LOD state
    resumeDue   \* history: a clear was requested while the simulation ran, is not yet
                \* fully acknowledged, and the user has not toggled since

storeVars == <<store>>
renderVars == <<renderer, gpu>>
codecVars == <<codecIn, codecOut>>
stageVars == <<stageIn, stageOut>>
workerVars == <<worker, workerIn, workerOut, workerLog>>
appVars == <<app, sim, simIn, simOut, pendingClears, perf, resumeDue>>

vars == <<store, hist, nOps, renderer, gpu, codecIn, codecOut, stageIn, stageOut,
          worker, workerIn, workerOut, workerLog,
          app, sim, simIn, simOut, accessLog, pendingClears, perf, resumeDue>>

(***************************************************************************)
(* Binary buffers: who touches them and who hands them on                  *)
(*                                                                         *)
(* A buffer is named by its origin and rank: the n-th buffer the simulator *)
(* encodes is <<"raw", n>>, the n-th the data worker encodes is            *)
(* <<"processed", n>>.  The channels are FIFO, so the rank of a buffer     *)
(* taken from a channel follows from the events logged so far.             *)
(***************************************************************************)
Access(thread, op, buffer) ==
    [thread |-> thread, op |-> op, buffer |-> buffer, to |-> "none"]

Transfer(thread, buffer, to) ==
    [thread |-> thread, op |-> "transfer", buffer |-> buffer, to |-> to]

\* The events of the log by one thread with one op.
EventsOf(log, thread, op) ==
    SelectSeq(log, LAMBDA ev : ev.thread = thread /\ ev.op = op)

\* The setInterval callback: pointsToBuffer allocates and fills the buffer,
\* messageCallback(buffer, [buffer]) posts it; points.length and
\* totalPointsSent are read afterwards, the buffer is not.
intervalAccesses(buffer) ==
    << Access("simulator", "create", buffer),
       Access("simulator", "write", buffer),
       Transfer("simulator", buffer, "main") >>

\* simulatorWorker.onmessage: a Float32Array view is made over the buffer
\* and the message is posted with [pointsBuffer]; the handler ends there.
simulatorOnMessageAccesses(buffer) ==
    << Access("main", "read", buffer),
       Transfer("main", buffer, "worker") >>

\* A processPoints that reads the byte length of its reply after posting it.
processPointsAccessesAfterPost(rawPoints, posted, input, output) ==
    (IF rawPoints.kind \in {"Float32Array", "ArrayBuffer"}
     THEN <<Access("worker", "read", input)>> ELSE <<>>)
    \o (IF posted
        THEN << Access("worker", "create", output),
                Access("worker", "write", output),
                Transfer("worker", output, "main"),
                Access("worker", "read", output) >>
        ELSE <<>>)

\* processPoints: parseRawPoints reads the payload it was sent; when the
\* batch is answered, pointsToArrayBuffer allocates and fills the reply and
\* postMessage hands it over with [buffer]; the warnings after it read
\* lengths of point arrays and the config only.
processPointsAccesses(rawPoints, posted, input, output) ==
    (IF rawPoints.kind \in {"Float32Array", "ArrayBuffer"}
     THEN <<Access("worker", "read", input)>> ELSE <<>>)
    \o (IF posted
        THEN << Access("worker", "create", output),
                Access("worker", "write", output),
                Transfer("worker", output, "main") >>
        ELSE <<>>)

\* The arrays of the main thread that are no message payload: the entities'
\* vertex and colour arrays, the staging arrays and the GPU vertex buffers.
StoreArrays == <<"store", 0>>
StagingArrays == <<"staging", 0>>
GpuBuffers == <<"gpu", 0>>

\* updatePoints as accesses: addPoint writes the entity's arrays once per
\* point, so a batch with a point is a write to the store.
updatePointsAccesses(data) ==
    IF data.count = 0 THEN <<>> ELSE <<Access("main", "write", StoreArrays)>>

\* clear as accesses: clearAll resets every entity.
clearAccesses == <<Access("main", "clear", StoreArrays)>>

\* One frame as accesses: the pack writes the staging arrays, the upload
\* writes the GPU buffers, and the frame draws from them.
frameAccesses(packed, uploaded) ==
    (IF packed THEN <<Access("main", "write", StagingArrays)>> ELSE <<>>)
    \o (IF uploaded THEN <<Access("main", "write", GpuBuffers)>> ELSE <<>>)
    \o <<Access("main", "draw", GpuBuffers)>>

\* dataWorker.onmessage: a 'processed' buffer is read by updatePoints unless
\* a clear is awaited.
dataWorkerOnMessageAccesses(ap, msg, buffer) ==
    IF msg.type = "processed" /\ ~ap.clearAwaiting
    THEN <<Access("main", "read", buffer)>>
    ELSE <<>>

(***************************************************************************)
(* The path store driven through its interface                             *)
(***************************************************************************)
\* Inputs of the store specification: two positions, one with an explicit
\* colour and one without, so that two appended points can be told apart.
Red == <<One, 0, 0, One>>
StorePoints == { [x |-> N(5), y |-> N(5), color |-> Null],
                 [x |-> N(-3), y |-> 0, color |-> Red] }

\* The history after one addPoint.
Logged(h, robotId, x, y, color) ==
    LET old == IF robotId \in DOMAIN h THEN h[robotId] ELSE <<>>
        entry == [x |-> x, y |-> y, color |-> color]
    IN  [i \in DOMAIN h \cup {robotId} |->
            IF i = robotId THEN Append(old, entry) ELSE h[i]]

\* The history after one batch: its points logged one by one in the order
\* they arrive, each under the id it carries.
RECURSIVE LoggedBatch(_, _)
LoggedBatch(h, points) ==
    IF points = <<>> THEN h
    ELSE LET p == Head(points)
         IN  LoggedBatch(Logged(h, OrElse(p.robotId, 0), p.x, p.y,
                                IF p.color THEN <<p.r, p.g, p.b, p.a>> ELSE Null),
                         Tail(points))

\* Everything but the inputs of the codec and of the stage, and the data
\* worker's inbox.
InitRest ==
    /\ store = EmptyStore
    /\ hist = <<>>
    /\ nOps = 0
    /\ renderer = NewRenderer
    /\ gpu = NewGpu
    /\ codecOut = Null
    /\ stageOut = Null
    /\ accessLog = <<>>
    /\ worker = NewWorker
    /\ workerOut = <<>>
    /\ workerLog = <<>>
    /\ app = NewApp
    /\ sim = NewSim
    /\ simIn = <<>>
    /\ simOut = <<>>
    /\ pendingClears = 0
    /\ perf = NewPerf
    /\ resumeDue = FALSE

InitAll == InitRest /\ codecIn = Null /\ stageIn = Null /\ workerIn = <<>>

InitStore == InitAll

StoreAddPoint ==
    /\ nOps < MaxOps
    /\ UNCHANGED <<renderVars, codecVars, stageVars, workerVars, appVars, accessLog>>
    /\ \E robotId \in Ids, p \in StorePoints :
          /\ store' = addPoint(store, robotId, p.x, p.y, p.color)
          /\ hist' = Logged(hist, robotId, p.x, p.y, p.color)
    /\ nOps' = nOps + 1

\* Batches of two different points, each with its own id; the colour fields
\* ride along and the `color` property is present on one of the two inputs.
StoreBatchPoint(robotId, p) ==
    IF p.color = Null
    THEN BatchPoint(p.x, p.y, One, One, One, One, robotId, FALSE)
    ELSE BatchPoint(p.x, p.y, p.color[1], p.color[2], p.color[3], p.color[4], robotId, TRUE)

StoreAddPoints ==
    /\ nOps < MaxOps
    /\ UNCHANGED <<renderVars, codecVars, stageVars, workerVars, appVars, accessLog>>
    /\ \E i1 \in Ids, i2 \in Ids, p1 \in StorePoints : \E p2 \in StorePoints \ {p1} :
          LET points == <<StoreBatchPoint(i1, p1), StoreBatchPoint(i2, p2)>>
          IN  /\ store' = addPoints(store, points)
              /\ hist' = LoggedBatch(hist, points)
    /\ nOps' = nOps + 1

StoreClearRobotPath ==
    /\ nOps < MaxOps
    /\ UNCHANGED <<renderVars, codecVars, stageVars, workerVars, appVars, accessLog>>
    /\ \E robotId \in Ids :
          /\ store' = clearRobotPath(store, robotId)
          /\ hist' = [i \in DOMAIN hist |-> IF i = robotId THEN <<>> ELSE hist[i]]
    /\ nOps' = nOps + 1

StoreClearAll ==
    /\ nOps < MaxOps
    /\ UNCHANGED <<renderVars, codecVars, stageVars, workerVars, appVars, accessLog>>
    /\ store' = clearAll(store)
    /\ hist' = [i \in DOMAIN hist |-> <<>>]
    /\ nOps' = nOps + 1

NextStore ==
    \/ StoreAddPoint
    \/ StoreAddPoints
    \/ StoreClearRobotPath
    \/ StoreClearAll

SpecStore == InitStore /\ [][NextStore]_vars

(***************************************************************************)
(* The renderer driven by processed batches, clears and frames             *)
(***************************************************************************)
\* Processed batches: the empty buffer, or two different points, each with
\* its own id, as pointsToArrayBuffer writes them.
RenderPoints == { [x |-> N(5), y |-> N(5)], [x |-> N(-3), y |-> 0] }

RenderBatches ==
    {<<>>} \cup
    UNION { { << Point(p1.x, p1.y, One, 0, 0, One, i1),
                 Point(p2.x, p2.y, One, 0, 0, One, i2) >> : p2 \in RenderPoints \ {p1} }
            : i1 \in Ids, i2 \in Ids, p1 \in RenderPoints }

InitRender == InitAll

RenderUpdatePoints ==
    /\ nOps < MaxRenderOps
    /\ \E points \in RenderBatches :
          LET data == pointsToArrayBuffer(points)
          IN  /\ renderer' = updatePoints(renderer, data)
              /\ hist' = LoggedBatch(hist, ReadPoints(data))
              /\ accessLog' = accessLog \o updatePointsAccesses(data)
    /\ nOps' = nOps + 1
    /\ UNCHANGED <<store, gpu, codecVars, stageVars, workerVars, appVars>>

RenderClear ==
    /\ nOps < MaxRenderOps
    /\ renderer' = clear(renderer)
    /\ hist' = [i \in DOMAIN hist |-> <<>>]
    /\ accessLog' = accessLog \o clearAccesses
    /\ nOps' = nOps + 1
    /\ UNCHANGED <<store, gpu, codecVars, stageVars, workerVars, appVars>>

RenderFrame ==
    /\ nOps < MaxRenderOps
    /\ LET out == render(renderer, gpu)
       IN  /\ renderer' = out.rd
           /\ gpu' = out.gpu
           /\ accessLog' = accessLog \o frameAccesses(out.packed, out.uploaded)
    /\ nOps' = nOps + 1
    /\ UNCHANGED <<store, hist, codecVars, stageVars, workerVars, appVars>>

NextRender ==
    \/ RenderUpdatePoints
    \/ RenderClear
    \/ RenderFrame

SpecRender == InitRender /\ [][NextRender]_vars

(***************************************************************************)
(* The codec applied to one input                                          *)
(***************************************************************************)
\* Longest point list encoded.
MaxBatch == 2

\* Points to encode: coordinates and channels that are 0 and that are not.
CodecPoints ==
    { Point(x, y, One, g, b, One, robotId) :
        x \in {0, N(100)}, y \in {0, N(5)}, g \in {0, One \div 2}, b \in {0, One},
        robotId \in {0, N(1)} }

RECURSIVE SeqsUpTo(_, _)
SeqsUpTo(S, n) ==
    IF n = 0 THEN {<<>>}
    ELSE LET shorter == SeqsUpTo(S, n - 1)
         IN  shorter \cup { Append(q, e) : q \in shorter, e \in S }

\* A word holding the four u8 channels 255, 0, 51, 102.
ColourWord == 255 + 256 * 0 + 65536 * 51 + 16777216 * 102

\* The words of a raw buffer: floats, every third one the colour word.
RawWords(n) == [i \in 1 .. n |-> IF i % 3 = 0 THEN ColourWord ELSE N(i)]

\* A raw buffer of byteLength bytes whose header reads count; a buffer
\* shorter than the header has no header to read.
RawBuffer(byteLength, count) ==
    IF byteLength < 4 THEN ArrayBuffer(byteLength, 0, <<>>)
    ELSE ArrayBuffer(byteLength, count, RawWords((byteLength - 4) \div 4))

\* Byte lengths: shorter than the header, exact for 0, 1, 2 or 3 points in
\* either layout, whole floats matching neither, and ragged.
RawByteLengths == {0, 2, 4, 5, 8, 16, 28, 32, 34, 36, 40, 60, 88}
RawCounts == 0 .. 3
RawBuffers == { RawBuffer(byteLength, count) : byteLength \in RawByteLengths, count \in RawCounts }

CodecInputs ==
    { [kind |-> "points", points |-> points] : points \in SeqsUpTo(CodecPoints, MaxBatch) }
    \cup { [kind |-> "raw", raw |-> [kind |-> k, buffer |-> buffer]] :
             k \in {"Float32Array", "ArrayBuffer"}, buffer \in RawBuffers }
    \cup { [kind |-> "raw", raw |-> [kind |-> "null"]],
           [kind |-> "raw", raw |-> [kind |-> "string"]],
           [kind |-> "raw", raw |-> [kind |-> "Array", points |-> <<>>]] }

InitCodec == InitRest /\ codecIn \in CodecInputs /\ stageIn = Null /\ workerIn = <<>>

\* parseRawPoints(new Float32Array(pointsToArrayBuffer(points)))
CodecRoundTrip ==
    /\ codecIn.kind = "points"
    /\ codecOut = Null
    /\ codecOut' = parseRawPoints([kind |-> "Float32Array",
                                   buffer |-> pointsToArrayBuffer(codecIn.points)])
    /\ UNCHANGED <<store, hist, nOps, renderVars, codecIn, stageVars, workerVars, appVars, accessLog>>

\* parseRawPoints(rawData)
CodecParse ==
    /\ codecIn.kind = "raw"
    /\ codecOut = Null
    /\ codecOut' = parseRawPoints(codecIn.raw)
    /\ UNCHANGED <<store, hist, nOps, renderVars, codecIn, stageVars, workerVars, appVars, accessLog>>

NextCodec ==
    \/ CodecRoundTrip
    \/ CodecParse

SpecCodec == InitCodec /\ [][NextCodec]_vars

(***************************************************************************)
(* Single stages of the pipeline called on bounded inputs                  *)
(***************************************************************************)
\* Longest batch handed to a stage.
MaxStagePoints == 3

\* Positions on both sides of 0 and of the cell borders at -8, 0 and 8 (the
\* cell size when lodThreshold / scale is 4).
StagePoints ==
    { Point(x, y, One, 0, 0, One, 0) :
        x \in {N(-5), N(-1), 0, N(3), N(7), N(9)}, y \in {0, N(3)} }

\* (lodThreshold, scale): merge distance 4, merge distance 50, and a scale
\* above 0.5.
StageLods == { <<N(2), One \div 2>>, <<N(5), One \div 10>>, <<N(2), One>> }

\* Positions inside, on the border of and just outside the expanded
\* rectangles of CullViews: x in [-50, 58], [-27, 27] and [-104, 112],
\* y in [-50, 58], [-23, 31] and [-100, 116].
CullPoints ==
    { Point(xy[1], xy[2], One, 0, 0, One, 0) :
        xy \in { <<0, 0>>, <<N(-50), 0>>, <<N(-50) - 1, 0>>, <<N(27), N(31)>>,
                 <<N(27), N(31) + 1>>, <<N(112), 0>>, <<N(113), 0>>,
                 <<N(-104), N(116)>> } }

\* (viewBounds, transform): either absent, scale 1, a falsy scale, and a
\* scale above and one below 1 with a translation.
CullViews ==
    LET view == [left |-> 0, top |-> 0, right |-> N(8), bottom |-> N(8)]
    IN  { <<Null, Transform(One, 0, 0)>>, <<view, Null>>,
          <<view, Transform(One, 0, 0)>>, <<view, Transform(0, 0, 0)>>,
          <<view, Transform(N(2), N(4), N(-4))>>,
          <<view, Transform(One \div 2, N(2), 0)>> }

StageInputs ==
    { [stage |-> "applyLOD", points |-> points, scale |-> lod[2], lodThreshold |-> lod[1],
       viewBounds |-> Null, transform |-> Null] :
        points \in SeqsUpTo(StagePoints, MaxStagePoints), lod \in StageLods }

CullInputs ==
    { [stage |-> "cullPoints", points |-> points, scale |-> 0, lodThreshold |-> 0,
       viewBounds |-> cv[1], transform |-> cv[2]] :
        points \in SeqsUpTo(CullPoints, MaxStagePoints), cv \in CullViews }

InitStage ==
    /\ InitRest
    /\ codecIn = Null
    /\ (stageIn \in StageInputs \/ stageIn \in CullInputs)
    /\ workerIn = <<>>

\* applyLOD(points, scale) under config.lodThreshold
StageApplyLOD ==
    /\ stageIn.stage = "applyLOD"
    /\ stageOut = Null
    /\ stageOut' = applyLOD(stageIn.points, stageIn.scale, stageIn.lodThreshold)
    /\ UNCHANGED <<store, hist, nOps, renderVars, codecVars, stageIn, workerVars, appVars, accessLog>>

\* cullPoints(points, viewBounds, transform)
StageCullPoints ==
    /\ stageIn.stage = "cullPoints"
    /\ stageOut = Null
    /\ stageOut' = cullPoints(stageIn.points, stageIn.viewBounds, stageIn.transform)
    /\ UNCHANGED <<store, hist, nOps, renderVars, codecVars, stageIn, workerVars, appVars, accessLog>>

NextStage ==
    \/ StageApplyLOD
    \/ StageCullPoints

SpecStage == InitStage /\ [][NextStage]_vars

(***************************************************************************)
(* The data worker driven by messages                                      *)
(***************************************************************************)
\* A 'process' payload as the simulator encodes it.
Wire(points) == [kind |-> "Float32Array", buffer |-> pointsToBuffer(points)]

\* The spec's pass-through batch, (0, 0) red and (10, 10) green, and a batch
\* off the quantization grid.
Scenario == << Point(0, 0, One, 0, 0, One, 0), Point(N(10), N(10), 0, One, 0, One, N(1)) >>
OffGrid == << Point(N(5) + 5, N(7) + 3, One, One, One \div 2, One, 0) >>

\* Two points near the origin and one far to the right of every view
\* rectangle followed.
Spread == << Point(0, 0, One, 0, 0, One, 0), Point(N(10), N(10), 0, One, 0, One, 0),
             Point(N(150), 0, 0, 0, One, One, 0) >>

ProcessMsg(points, transform) ==
    [type |-> "process", points |-> points, transform |-> transform]

ConfigMsg(params) == [type |-> "config", params |-> params]

WorkerMessages ==
    { ConfigMsg([enableLOD |-> FALSE, enableCulling |-> FALSE, enableQuantization |-> FALSE]),
      ConfigMsg([maxPoints |-> 1]),
      ConfigMsg([enableCulling |-> FALSE]),
      ConfigMsg([lodThreshold |-> N(20),
                 viewBounds |-> [left |-> 0, top |-> 0, right |-> N(8), bottom |-> N(8)],
                 enableCulling |-> TRUE]),
      [type |-> "clear"],
      ProcessMsg([kind |-> "null"], Null),
      ProcessMsg([kind |-> "string"], viewTransform),
      ProcessMsg([kind |-> "ArrayBuffer", buffer |-> RawBuffer(4, 0)], viewTransform),
      ProcessMsg([kind |-> "Float32Array", buffer |-> RawBuffer(2, 0)], viewTransform),
      ProcessMsg(Wire(Scenario), Null),
      ProcessMsg(Wire(Scenario), Transform(One \div 2, 0, 0)),
      ProcessMsg(Wire(Scenario), Transform(0, 0, 0)),
      ProcessMsg(Wire(Spread), Transform(One \div 2, 0, 0)),
      ProcessMsg(Wire(OffGrid), viewTransform),
      ProcessMsg(Wire(OffGrid), Transform(N(2), N(1), 0)) }

InitWorker == InitAll

\* postMessage to the data worker.
WorkerPost ==
    /\ nOps < MaxOps
    /\ \E msg \in WorkerMessages : workerIn' = Append(workerIn, msg)
    /\ nOps' = nOps + 1
    /\ UNCHANGED <<store, hist, renderVars, codecVars, stageVars, worker, workerOut, workerLog, appVars,
                   accessLog>>

\* A reply put ahead of the replies already queued.
postMessageFirst(channel, out) == out \o channel

\* self.postMessage: the replies of one handler run join the port's queue
\* behind the replies posted before.
postMessage(channel, out) == channel \o out

\* The data worker takes the next message and runs its handler to the end.
WorkerReceive ==
    /\ workerIn # <<>>
    /\ LET msg == Head(workerIn)
           h == WorkerOnMessage(worker, msg)
       IN  /\ worker' = h.w
           /\ workerOut' = postMessage(workerOut, h.out)
           /\ workerLog' = Append(workerLog,
                                  [msg |-> msg, before |-> worker, after |-> h.w,
                                   out |-> h.out, threw |-> h.threw])
           /\ accessLog' = accessLog \o
                 (IF msg.type = "process"
                  THEN processPointsAccesses(
                           msg.points, h.out # <<>>,
                           <<"raw", Len(EventsOf(accessLog, "worker", "read")) + 1>>,
                           <<"processed", Len(EventsOf(accessLog, "worker", "create")) + 1>>)
                  ELSE <<>>)
    /\ workerIn' = Tail(workerIn)
    /\ UNCHANGED <<store, hist, nOps, renderVars, codecVars, stageVars, appVars>>

NextWorker ==
    \/ WorkerPost
    \/ WorkerReceive

SpecWorker == InitWorker /\ [][NextWorker]_vars

(***************************************************************************)
(* The application: main thread, simulator worker and data worker          *)
(***************************************************************************)
\* User actions and simulator pushes followed.
MaxSteps == 4

Init == InitRest /\ codecIn = Null /\ stageIn = Null /\ workerIn = <<InitialConfig>>

\* The outcome of a main-thread handler applied to the state.
Main(step) ==
    /\ app' = step.app
    /\ renderer' = step.rd
    /\ simIn' = simIn \o step.toSim
    /\ UNCHANGED <<store, hist, gpu, codecVars, stageVars, sim, worker, workerLog, perf>>

UserToggle ==
    /\ nOps < MaxSteps
    /\ nOps' = nOps + 1
    /\ LET step == toggleSimulation(app, renderer)
       IN  Main(step) /\ workerIn' = workerIn \o step.toWorker
    /\ resumeDue' = FALSE
    /\ UNCHANGED <<simOut, workerOut, accessLog, pendingClears>>

UserClear ==
    /\ nOps < MaxSteps
    /\ nOps' = nOps + 1
    /\ LET step == clearPoints(app, renderer)
       IN  Main(step) /\ workerIn' = workerIn \o step.toWorker
    /\ pendingClears' = pendingClears + 1
    /\ resumeDue' = (resumeDue \/ app.isSimulating)
    /\ UNCHANGED <<simOut, workerOut, accessLog>>

\* Positions of the LOD slider (1 to 10 in steps of 0.5).
LodSteps == {N(1), N(5)}

UserSetLod ==
    /\ nOps < MaxSteps
    /\ nOps' = nOps + 1
    /\ \E value \in LodSteps \ {app.lodThreshold} :
          LET step == setLodThreshold(app, renderer, value)
          IN  Main(step) /\ workerIn' = workerIn \o step.toWorker
    /\ UNCHANGED <<simOut, workerOut, accessLog, pendingClears, resumeDue>>

\* The simulator worker takes its next message.
SimReceive ==
    /\ simIn # <<>>
    /\ sim' = SimOnMessage(sim, Head(simIn))
    /\ simIn' = Tail(simIn)
    /\ UNCHANGED <<store, hist, nOps, renderVars, codecVars, stageVars, workerVars, app, simOut,
                   accessLog, pendingClears, perf, resumeDue>>

\* The simulator's interval fires while it runs.
SimTick ==
    /\ nOps < MaxSteps
    /\ sim.isRunning
    /\ nOps' = nOps + 1
    /\ LET tick == SimInterval(sim)
       IN  /\ sim' = tick.sm
           /\ simOut' = simOut \o tick.out
           /\ accessLog' = accessLog \o
                 (IF tick.out = <<>> THEN <<>>
                  ELSE intervalAccesses(
                           <<"raw", Len(EventsOf(accessLog, "simulator", "create")) + 1>>))
    /\ UNCHANGED <<store, hist, renderVars, codecVars, stageVars, workerVars, app, simIn,
                   pendingClears, perf, resumeDue>>

\* The main thread takes the simulator's next buffer.
MainFromSim ==
    /\ simOut # <<>>
    /\ simOut' = Tail(simOut)
    /\ LET step == SimulatorOnMessage(app, renderer, Head(simOut))
       IN  Main(step) /\ workerIn' = workerIn \o step.toWorker
    /\ accessLog' = accessLog \o
          simulatorOnMessageAccesses(
              <<"raw", Len(EventsOf(accessLog, "main", "transfer")) + 1>>)
    /\ UNCHANGED <<nOps, workerOut, pendingClears, resumeDue>>

\* The main thread takes the data worker's next message.
MainFromWorker ==
    /\ workerOut # <<>>
    /\ workerOut' = Tail(workerOut)
    /\ LET step == DataWorkerOnMessage(app, renderer, Head(workerOut))
       IN  Main(step) /\ workerIn' = workerIn \o step.toWorker
    /\ LET waiting == Len(SelectSeq(workerOut, LAMBDA m : m.type = "processed"))
           rank == Len(EventsOf(accessLog, "worker", "transfer")) - waiting + 1
       IN  accessLog' = accessLog \o
               dataWorkerOnMessageAccesses(app, Head(workerOut), <<"processed", rank>>)
    /\ pendingClears' = IF Head(workerOut).type = "cleared"
                        THEN pendingClears - 1 ELSE pendingClears
    /\ resumeDue' = (resumeDue /\ pendingClears' > 0)
    /\ UNCHANGED <<nOps, simOut>>

Next ==
    \/ UserToggle
    \/ UserClear
    \/ UserSetLod
    \/ SimReceive
    \/ SimTick
    \/ MainFromSim
    \/ WorkerReceive
    \/ MainFromWorker

Spec == Init /\ [][Next]_vars

(***************************************************************************)
(* The render loop's adaptive LOD                                          *)
(***************************************************************************)
\* Latest clock value at which a frame still starts.
MaxClock == 26

\* Time from one frame to the next: a quarter of a second and a second.
FrameGaps == {1, 4}

\* Time from the frame's timestamp to the performance.now() of the
\* cooldown check.
NowDelays == {0, 1}

\* One animation frame: render(timestamp) calls updatePerformanceStats and
\* webglRenderer.render().
AnimationFrame ==
    /\ perf.clock < MaxClock
    /\ \E gap \in FrameGaps, delay \in NowDelays :
          LET timestamp == perf.clock + gap
              step == updatePerformanceStats(app, perf, timestamp, timestamp + delay)
              out == render(renderer, gpu)
          IN  /\ app' = step.app
              /\ perf' = step.pf
              /\ workerIn' = workerIn \o step.toWorker
              /\ renderer' = out.rd
              /\ gpu' = out.gpu
              /\ accessLog' = accessLog \o frameAccesses(out.packed, out.uploaded)
    /\ UNCHANGED <<store, hist, nOps, codecVars, stageVars, worker, workerOut, workerLog,
                   sim, simIn, simOut, pendingClears, resumeDue>>

NextAdaptive ==
    \/ AnimationFrame
    \/ UserSetLod

SpecAdaptive == Init /\ [][NextAdaptive]_vars

(***************************************************************************)
(* Claims about the path store                                             *)
(***************************************************************************)
Tracked == DOMAIN store.rs

\* The valid window of an entity: its first pointCount points, oldest first.
Window(r) ==
    [i \in 1 .. r.pointCount |->
        [x |-> r.vertices[2 * i - 1], y |-> r.vertices[2 * i],
         color |-> SubSeq(r.colors, 4 * i - 3, 4 * i)]]

\* The points an entity should hold after the appends h: the last
\* min(Len(h), capacity) of them, as a Float32Array stores them.
Kept(h, defaultColor) ==
    LET n == Min2(Len(h), maxPointsPerRobot)
        tail == LastN(h, n)
    IN  [i \in 1 .. n |->
            [x |-> F32(tail[i].x), y |-> F32(tail[i].y),
             color |-> IF tail[i].color = Null THEN defaultColor ELSE tail[i].color]]

\* C1: after n appends to an entity that started empty, its count is
\* min(n, capacity), never above capacity, and its valid window holds the
\* last min(n, capacity) appended points, oldest first.
C1_RingBufferFifo ==
    \A id \in Tracked :
        LET r == store.rs[id]
        IN  /\ r.pointCount = Min2(Len(hist[id]), maxPointsPerRobot)
            /\ r.pointCount <= maxPointsPerRobot
            /\ Window(r) = Kept(hist[id], r.color)

\* C1 witness: an entity has taken more appends than its capacity and the
\* evicted point differs from the one that followed it.
C1_Witness ==
    \E id \in Tracked :
        /\ Len(hist[id]) > maxPointsPerRobot
        /\ hist[id][1] # hist[id][2]

\* C9: the store tracks at most maxRobots ids, and once maxRobots ids are
\* tracked no call creates another entity.
C9_EntityCapacity ==
    [][/\ Cardinality(DOMAIN store'.rs) <= maxRobots
       /\ (Cardinality(Tracked) >= maxRobots => DOMAIN store'.rs \subseteq Tracked)]_vars

\* The valid points of the whole store, by the history.
ValidPoints ==
    UNION { {Kept(hist[id], Null)[i] : i \in 1 .. Min2(Len(hist[id]), maxPointsPerRobot)}
            : id \in DOMAIN hist }

ExpectedBox ==
    IF ValidPoints = {} THEN BBox(PosInf, PosInf, -PosInf, -PosInf)
    ELSE BBox(SetMin({p.x : p \in ValidPoints}), SetMin({p.y : p \in ValidPoints}),
              SetMax({p.x : p \in ValidPoints}), SetMax({p.y : p \in ValidPoints}))

\* C10: getBoundingBox is the min and max of x and y over the valid points of
\* all entities, and the sentinel exactly when no entity holds a point; the
\* single point (5,5) gives {5,5,5,5}.
C10_BoundingBox ==
    /\ getBoundingBox(store) = ExpectedBox
    /\ (getBoundingBox(store).minX = PosInf) <=> (ValidPoints = {})
    /\ (ValidPoints = {[x |-> N(5), y |-> N(5), color |-> Null]}
            => getBoundingBox(store) = BBox(N(5), N(5), N(5), N(5)))

\* C10 witness: a point left of the whole box has been evicted, and the box
\* is the single point (5,5).
C10_Witness ==
    /\ \E id \in Tracked :
          /\ Len(hist[id]) > maxPointsPerRobot
          /\ hist[id][1].x < getBoundingBox(store).minX
    /\ getBoundingBox(store) = BBox(N(5), N(5), N(5), N(5))

(***************************************************************************)
(* Claims about the packer                                                 *)
(***************************************************************************)
\* What the packer should keep of each active entity, in iteration order.
ClaimedKeeps(robots) ==
    [i \in 1 .. Len(robots) |->
        IF TotalCount(robots) > MAX_POINTS
        THEN Min2(robots[i].pointCount, FloorDiv(MAX_POINTS, Len(robots)))
        ELSE robots[i].pointCount]

\* The staging arrays hold, entity after entity, the last keep points of
\* each entity (positions as stored, colours as 8-bit channels), and every
\* draw range listed is {start, keep}.
PackedAsClaimed(rd) ==
    LET robots == getActiveRobots(rd.robotManager)
        keeps == ClaimedKeeps(robots)
        startOf(i) == SeqSum(SubSeq(keeps, 1, i - 1))
    IN  /\ rd.packedTotal = SeqSum(keeps)
        /\ \A i \in 1 .. Len(rd.packedDraws) :
              rd.packedDraws[i] = [start |-> startOf(i), count |-> keeps[i]]
        /\ \A i \in 1 .. Len(robots) : \A k \in 1 .. keeps[i] :
              LET src == robots[i].pointCount - keeps[i] + k
                  dst == startOf(i) + k
              IN  /\ rd.stagingPos[2 * dst - 1] = robots[i].vertices[2 * src - 1]
                  /\ rd.stagingPos[2 * dst] = robots[i].vertices[2 * src]
                  /\ \A c \in 0 .. 3 :
                        rd.stagingColorU8[4 * dst - c] = ToU8(robots[i].colors[4 * src - c])

IsBuffer(raw) == raw.kind \in {"Float32Array", "ArrayBuffer"}

\* The codec has decoded a raw buffer that holds at least the header.
DecodedBuffer ==
    /\ codecIn.kind = "raw"
    /\ codecOut # Null
    /\ IsBuffer(codecIn.raw)
    /\ codecIn.raw.buffer.byteLength >= 4

\* C4: decoding the buffer pointsToArrayBuffer produced for a point list
\* returns, without throwing, the same points in the same order.
C4_CodecRoundTrip ==
    (codecIn.kind = "points" /\ codecOut # Null)
        => (~codecOut.threw /\ codecOut.points = codecIn.points)

\* C6: the layout is chosen by (header count, payloadBytes) alone: extended
\* iff payloadBytes = count * 28, else legacy (entity id 0) iff payloadBytes =
\* count * 12, else fallback; an empty payload with count 0 is extended and
\* holds no point; an exact match decodes count points.
C6_LayoutSelection ==
    DecodedBuffer =>
        LET count == codecIn.raw.buffer.count
            payloadBytes == codecIn.raw.buffer.byteLength - 4
            isExtended == payloadBytes = count * 28
            isLegacy == ~isExtended /\ payloadBytes = count * 12
        IN  /\ codecOut.layout = "extended" <=> isExtended
            /\ codecOut.layout = "legacy" <=> isLegacy
            /\ codecOut.layout = "fallback" <=> (~isExtended /\ ~isLegacy)
            /\ isLegacy => \A i \in 1 .. Len(codecOut.points) : codecOut.points[i].robotId = 0
            /\ (count = 0 /\ payloadBytes = 0)
                   => (codecOut.layout = "extended" /\ codecOut.points = <<>>)
            /\ (isExtended \/ isLegacy)
                   => (~codecOut.threw /\ Len(codecOut.points) = count)

\* A header-only buffer with count 0, where both sizes match, was decoded
\* through the extended branch.
C6_Witness ==
    /\ DecodedBuffer
    /\ codecIn.raw.buffer.byteLength = 4
    /\ codecIn.raw.buffer.count = 0
    /\ codecOut.layout = "extended"

\* C7: for every buffer of at least 4 bytes parseRawPoints returns without
\* throwing, and when the payload matches neither layout it returns
\* floor(floatCount / 7) points.
C7_NeverFatal ==
    DecodedBuffer =>
        LET count == codecIn.raw.buffer.count
            payloadBytes == codecIn.raw.buffer.byteLength - 4
            floatCount == payloadBytes \div 4
        IN  /\ ~codecOut.threw
            /\ (payloadBytes # count * 28 /\ payloadBytes # count * 12)
                   => Len(codecOut.points) = floatCount \div 7

(***************************************************************************)
(* Claims about the data worker                                            *)
(***************************************************************************)
ScaleOf(transform) ==
    IF transform # Null /\ transform.scale # 0 THEN transform.scale ELSE One

\* The points a 'process' message carries, as the decoder reads them.
InputPoints(msg) == parseRawPoints(msg.points).points

\* A 'process' message whose buffer is shorter than the 4-byte header.
IsShort(msg) ==
    /\ msg.type = "process"
    /\ IsBuffer(msg.points)
    /\ msg.points.buffer.byteLength < 4

\* A 'process' message that decodes to at least one point.
IsValid(msg) ==
    /\ msg.type = "process"
    /\ ~parseRawPoints(msg.points).threw
    /\ InputPoints(msg) # <<>>

\* C5: with the three stage flags off and scale < 2, a 'process' message that
\* carries points yields one 'processed' message whose buffer decodes to
\* exactly those points.
C5_PassThrough ==
    \A i \in 1 .. Len(workerLog) :
        LET e == workerLog[i]
        IN  ( /\ IsValid(e.msg)
              /\ ~e.before.config.enableLOD
              /\ ~e.before.config.enableCulling
              /\ ~e.before.config.enableQuantization
              /\ ScaleOf(e.msg.transform) < N(2) )
            => /\ Len(e.out) = 1
               /\ e.out[1].type = "processed"
               /\ parseRawPoints([kind |-> "Float32Array", buffer |-> e.out[1].data]).points
                      = InputPoints(e.msg)

\* C8: a 'process' message shorter than the header posts nothing and leaves
\* config, pointCache and totalPoints as they were, and a valid 'process'
\* message handled next is answered by one 'processed' message for all of
\* its points.
C8_ShortBuffer ==
    \A i \in 1 .. Len(workerLog) :
        LET e == workerLog[i]
        IN  IsShort(e.msg) =>
               /\ e.out = <<>>
               /\ e.after = e.before
               /\ (i < Len(workerLog) /\ IsValid(workerLog[i + 1].msg)) =>
                     LET n == workerLog[i + 1]
                         pushed == e.before.pointCache \o InputPoints(n.msg)
                     IN  /\ Len(n.out) = 1
                         /\ n.out[1].type = "processed"
                         /\ n.out[1].stats.inputPoints = Len(InputPoints(n.msg))
                         /\ n.after.config = e.before.config
                         /\ n.after.pointCache
                                = IF Len(pushed) > e.before.config.maxPoints
                                  THEN SliceLast(pushed, e.before.config.maxPoints)
                                  ELSE pushed

\* A short buffer was handled while the accumulator held points, and the
\* valid batch after it was answered.
C8_Witness ==
    \E i \in 1 .. Len(workerLog) - 1 :
        /\ IsShort(workerLog[i].msg)
        /\ workerLog[i].before.pointCache # <<>>
        /\ IsValid(workerLog[i + 1].msg)
        /\ workerLog[i + 1].out # <<>>

(***************************************************************************)
(* Claims about the application                                            *)
(***************************************************************************)
\* C3: a 'processed' message the main thread handles while a 'clear' request
\* awaits its 'cleared' adds nothing to the path store.
C3_ClearHandshake ==
    [][ ( /\ workerOut # <<>>
          /\ Head(workerOut).type = "processed"
          /\ workerOut' = Tail(workerOut)
          /\ pendingClears > 0 )
        => renderer'.robotManager = renderer.robotManager ]_vars

(***************************************************************************)
(* Claims about the draw list and the dirty flag                           *)
(***************************************************************************)
\* The draw list holds one entry per active entity, in iteration order,
\* each with the entity's packed count and the counts before it as start.
DrawListAsClaimed(rd) ==
    LET robots == getActiveRobots(rd.robotManager)
        keeps == ClaimedKeeps(robots)
    IN  /\ Len(rd.packedDraws) = Len(robots)
        /\ \A i \in 1 .. Len(robots) :
              rd.packedDraws[i] = [start |-> SeqSum(SubSeq(keeps, 1, i - 1)),
                                   count |-> keeps[i]]

\* C11: after every pack the draw list has exactly one {start, count} entry
\* per active entity, in iteration order, entities of count 0 or 1 included.
C11_DrawList ==
    [][(renderer.needsPack /\ ~renderer'.needsPack) => DrawListAsClaimed(renderer')]_vars

\* C12: every step that changes the path store leaves _needsPack set, and
\* _needsPack falls only in a step that packs (the store untouched, the draw
\* list rebuilt for it).
C12_DirtyFlag ==
    [][ /\ (renderer'.robotManager # renderer.robotManager) => renderer'.needsPack
        /\ (renderer.needsPack /\ ~renderer'.needsPack)
              => /\ renderer'.robotManager = renderer.robotManager
                 /\ renderer'.packedTotal
                        = SeqSum([i \in 1 .. Len(renderer'.packedDraws) |->
                                     renderer'.packedDraws[i].count]) ]_vars

(***************************************************************************)
(* Claims about the data worker's accumulator and replies                  *)
(***************************************************************************)
\* The points decoded by the first i handled messages since the last 'clear'
\* among them, in arrival order.
RECURSIVE Decoded(_)
Decoded(i) ==
    IF i = 0 THEN <<>>
    ELSE LET e == workerLog[i]
         IN  CASE e.msg.type = "clear" -> <<>>
               [] e.msg.type = "process" /\ ~e.threw -> Decoded(i - 1) \o InputPoints(e.msg)
               [] OTHER -> Decoded(i - 1)

\* A handled 'process' message that was answered.
IsProcessed(e) == e.msg.type = "process" /\ e.out # <<>>

IsEmpty(e) ==
    /\ e.msg.type = "process"
    /\ ~e.threw
    /\ InputPoints(e.msg) = <<>>

\* C14: a 'process' message that decodes to zero points (header count 0,
\* null input, or a payload of an unrecognised type) posts nothing and leaves
\* pointCache, totalPoints and config as they were.
C14_EmptyBatch ==
    \A i \in 1 .. Len(workerLog) :
        IsEmpty(workerLog[i]) =>
            /\ workerLog[i].out = <<>>
            /\ workerLog[i].after = workerLog[i].before

\* A header-only buffer with count 0 was handled while the accumulator held
\* points.
C14_Witness ==
    \E i \in 1 .. Len(workerLog) :
        /\ IsEmpty(workerLog[i])
        /\ IsBuffer(workerLog[i].msg.points)
        /\ workerLog[i].msg.points.buffer.count = 0
        /\ workerLog[i].before.pointCache # <<>>

\* A handled message that calls for a reply: a 'clear', or a 'process' that
\* decoded to at least one point.
CallsForReply(e) == e.msg.type = "clear" \/ IsValid(e.msg)

IsNonEmptyProcess(e) == IsValid(e.msg)

IsProcessedReply(r) == r.type = "processed"

\* C15: messages are handled one at a time to the end: the replies posted
\* are, in order, one per 'clear' and one per non-empty 'process' handled,
\* and the k-th 'processed' reply is the answer to the k-th non-empty
\* 'process' message.
C15_ReplyOrder ==
    LET requests == SelectSeq(workerLog, CallsForReply)
        batches == SelectSeq(workerLog, IsNonEmptyProcess)
        processed == SelectSeq(workerOut, IsProcessedReply)
    IN  /\ Len(workerOut) = Len(requests)
        /\ \A k \in 1 .. Len(requests) :
              /\ requests[k].out = <<workerOut[k]>>
              /\ workerOut[k].type
                    = IF requests[k].msg.type = "clear" THEN "cleared" ELSE "processed"
        /\ Len(processed) = Len(batches)
        /\ \A k \in 1 .. Len(batches) :
              /\ batches[k].out = <<processed[k]>>
              /\ processed[k].stats.inputPoints = Len(InputPoints(batches[k].msg))

\* A batch was answered, an empty 'process' message was handled without a
\* reply, and a 'clear' was answered after it.
C15_Witness ==
    /\ Len(workerOut) = 2
    /\ workerOut[1].type = "processed"
    /\ workerOut[2].type = "cleared"
    /\ Len(workerLog) = 3
    /\ IsEmpty(workerLog[2])

\* Entry j of the log is the first answered batch after the 'clear' at
\* entry i.
NextProcessedAfter(i, j) ==
    /\ i < j
    /\ workerLog[i].msg.type = "clear"
    /\ IsProcessed(workerLog[j])
    /\ \A m \in i + 1 .. j - 1 :
          workerLog[m].msg.type # "clear" /\ ~IsProcessed(workerLog[m])

\* C16: every 'clear' is answered by exactly one 'cleared' message whose
\* stats.totalPoints is 0 and empties the accumulator, and the totalPoints of
\* the next 'processed' message counts only the points received after it.
C16_ClearResets ==
    \A i \in 1 .. Len(workerLog) :
        workerLog[i].msg.type = "clear" =>
            /\ Len(workerLog[i].out) = 1
            /\ workerLog[i].out[1].type = "cleared"
            /\ workerLog[i].out[1].stats.totalPoints = 0
            /\ workerLog[i].after.pointCache = <<>>
            /\ workerLog[i].after.totalPoints = 0
            /\ \A j \in 1 .. Len(workerLog) :
                  NextProcessedAfter(i, j) =>
                      workerLog[j].out[1].stats.totalPoints
                          = Len(InputPoints(workerLog[j].msg))

\* A 'clear' was handled while the accumulator held points, and a batch was
\* answered after it.
C16_Witness ==
    \E i, j \in 1 .. Len(workerLog) :
        /\ NextProcessedAfter(i, j)
        /\ workerLog[i].before.pointCache # <<>>
        /\ workerLog[i].before.totalPoints > 0

\* The configuration in force after the first i handled messages: the
\* initial one overwritten, field by field, by each 'config' message among
\* them in order.
RECURSIVE ConfigAt(_)
ConfigAt(i) ==
    IF i = 0 THEN NewWorker.config
    ELSE LET e == workerLog[i]
             prev == ConfigAt(i - 1)
         IN  IF e.msg.type = "config"
             THEN [f \in DOMAIN prev |->
                      IF f \in DOMAIN e.msg.params THEN e.msg.params[f] ELSE prev[f]]
             ELSE prev

\* C17: each batch is processed under one configuration, the one in force
\* when its 'process' message is handled: the cap, every stage and the reply
\* follow the 'config' messages handled before it and none handled after.
C17_ConfigPerBatch ==
    \A j \in 1 .. Len(workerLog) :
        LET e == workerLog[j]
            config == ConfigAt(j - 1)
            points == InputPoints(e.msg)
            expected == Pipeline(config, points, e.msg.transform)
        IN  IsProcessed(e) =>
               /\ e.before.config = config
               /\ e.after.config = config
               /\ Len(e.after.pointCache) <= config.maxPoints
               /\ e.out[1].data = pointsToArrayBuffer(expected)
               /\ e.out[1].stats.outputPoints = Len(expected)

\* The same 'process' message was answered twice with different data, a
\* 'config' message having been handled between the two.
C17_Witness ==
    \E i, j \in 1 .. Len(workerLog) :
        /\ i + 1 < j
        /\ IsProcessed(workerLog[i])
        /\ IsProcessed(workerLog[j])
        /\ workerLog[i].msg = workerLog[j].msg
        /\ workerLog[i + 1].msg.type = "config"
        /\ workerLog[i].out[1].data # workerLog[j].out[1].data

(***************************************************************************)
(* Claims about appends and position markers of the path store             *)
(***************************************************************************)
\* The points a step appended to an entity, in the order they arrived.
Appended(id) ==
    IF id \in DOMAIN hist
    THEN SubSeq(hist'[id], Len(hist[id]) + 1, Len(hist'[id]))
    ELSE hist'[id]

\* Points as the entity's arrays hold them.
AsStored(entries, defaultColor) ==
    [i \in 1 .. Len(entries) |->
        [x |-> F32(entries[i].x), y |-> F32(entries[i].y),
         color |-> IF entries[i].color = Null THEN defaultColor ELSE entries[i].color]]

\* C18: a call that appends to an entity leaves its points in the order they
\* arrived within the call, behind all the points the entity held before
\* (of which the oldest give way at capacity).
C18_BatchOrder ==
    [][\A id \in DOMAIN hist' :
          Len(Appended(id)) > 0 =>
              LET old == IF id \in Tracked THEN Window(store.rs[id]) ELSE <<>>
                  all == old \o AsStored(Appended(id), store'.rs[id].color)
              IN  Window(store'.rs[id]) = LastN(all, Min2(Len(all), maxPointsPerRobot))]_vars

\* Two calls have appended three points to one entity, so one of them was a
\* batch that carried two different points for it.
C18_Witness ==
    /\ nOps = 2
    /\ \E id \in Tracked :
          /\ Len(hist[id]) = 3
          /\ hist[id][2] # hist[id][3]

\* C19: an entity that holds points has currentPosition at the last point
\* appended to it and startPosition at the first point appended since its
\* last clear, evicted or not; an entity that holds none has both markers
\* empty.
C19_PositionMarkers ==
    \A id \in Tracked :
        LET r == store.rs[id]
            h == hist[id]
        IN  /\ r.pointCount > 0 =>
                  /\ h # <<>>
                  /\ r.currentPosition = <<Last(h).x, Last(h).y>>
                  /\ r.startPosition = <<h[1].x, h[1].y>>
            /\ r.pointCount = 0 =>
                  /\ h = <<>>
                  /\ r.currentPosition = Null
                  /\ r.startPosition = Null

\* One entity has evicted its first point, which differs from the oldest it
\* still holds, and another entity has been cleared.
C19_Witness ==
    \E id, other \in Tracked :
        /\ Len(hist[id]) > maxPointsPerRobot
        /\ hist[id][1] # hist[id][2]
        /\ store.rs[id].startPosition # store.rs[id].currentPosition
        /\ other # id
        /\ store.rs[other].pointCount = 0

(***************************************************************************)
(* Claims about the level-of-detail stage                                  *)
(***************************************************************************)
\* The batch as it reaches the LOD stage of processPoints.
BeforeLOD(config, points, transform) ==
    LET projected == projectPoints(points, transform)
    IN  IF config.enableCulling /\ config.viewBounds # Null
        THEN cullPoints(projected, config.viewBounds, transform)
        ELSE projected

NoScale(transform) == transform = Null \/ transform.scale = 0

\* C20: applyLOD returns its input whenever it has fewer points than the
\* minimum or the scale is above 0.5, and a batch whose transform or scale is
\* missing is processed at scale 1, so its reply is the one of the pipeline
\* without the LOD stage.
C20_LodIdentity ==
    \A i \in 1 .. Len(workerLog) :
        LET e == workerLog[i]
            config == e.before.config
            points == InputPoints(e.msg)
            transform == e.msg.transform
            staged == BeforeLOD(config, points, transform)
            scale == ScaleOf(transform)
            unmerged == Pipeline([config EXCEPT !.enableLOD = FALSE], points, transform)
        IN  IsProcessed(e) =>
               /\ (Len(staged) < LodMinPoints \/ 2 * scale > One)
                     => applyLOD(staged, scale, config.lodThreshold) = staged
               /\ NoScale(transform) =>
                     /\ scale = One
                     /\ e.out[1].data = pointsToArrayBuffer(unmerged)
                     /\ e.out[1].stats.outputPoints = Len(staged)

\* A batch long enough for the LOD stage, whose points the merge would join
\* at scale 0.5, was answered under a transform without scale while LOD was
\* enabled.
C20_Witness ==
    \E i \in 1 .. Len(workerLog) :
        LET e == workerLog[i]
            config == e.before.config
            staged == BeforeLOD(config, InputPoints(e.msg), e.msg.transform)
        IN  /\ IsProcessed(e)
            /\ config.enableLOD
            /\ e.msg.transform # Null
            /\ e.msg.transform.scale = 0
            /\ Len(staged) >= LodMinPoints
            /\ Len(applyLOD(staged, One \div 2, config.lodThreshold)) < Len(staged)

\* applyLOD has been called on a batch it merges.
Merged ==
    /\ stageIn.stage = "applyLOD"
    /\ stageOut # Null
    /\ Len(stageIn.points) >= LodMinPoints
    /\ 2 * stageIn.scale <= One

\* The clusters of the call.
StageClusters ==
    LodClusters(stageIn.points,
                GridOrder(stageIn.points, stageIn.lodThreshold, stageIn.scale),
                {}, stageIn.lodThreshold, stageIn.scale)

\* The squared distance of points i and j of the batch is at most
\* (k * lodThreshold / scale) squared.
Within(i, j, k) ==
    LET p == stageIn.points[i]
        q == stageIn.points[j]
        dx == p.x - q.x
        dy == p.y - q.y
    IN  (dx * dx + dy * dy) * stageIn.scale * stageIn.scale
            <= k * k * stageIn.lodThreshold * stageIn.lodThreshold * One * One

\* C21: when applyLOD merges, each output point is the centroid of one
\* cluster, every member of a cluster lies within the merge distance d of
\* the cluster's seed, and no two members are more than 2d apart.
C21_ClusterSoundness ==
    Merged =>
        /\ Len(stageOut) = Len(StageClusters)
        /\ \A c \in 1 .. Len(StageClusters) :
              LET cluster == StageClusters[c]
              IN  /\ stageOut[c] = Centroid(stageIn.points, cluster)
                  /\ \A m \in 1 .. Len(cluster) : Within(cluster[1], cluster[m], 1)
                  /\ \A m, n \in 1 .. Len(cluster) : Within(cluster[m], cluster[n], 2)

\* A cluster holds two points farther than d from each other, both joined
\* through the seed between them.
C21_Witness ==
    /\ Merged
    /\ \E c \in 1 .. Len(StageClusters) :
          \E m, n \in 1 .. Len(StageClusters[c]) :
              ~Within(StageClusters[c][m], StageClusters[c][n], 1)

\* Points i and j of the batch are closer than the merge distance.
Closer(i, j) ==
    LET p == stageIn.points[i]
        q == stageIn.points[j]
        dx == p.x - q.x
        dy == p.y - q.y
    IN  (dx * dx + dy * dy) * stageIn.scale * stageIn.scale
            < stageIn.lodThreshold * stageIn.lodThreshold * One * One

\* The whole batch lies in a region of diameter below the merge distance.
SmallRegion ==
    \A i, j \in 1 .. Len(stageIn.points) : Closer(i, j)

\* C22: when applyLOD merges a batch whose points all lie in a region of
\* diameter smaller than the merge distance, it returns exactly one point,
\* wherever the region lies relative to the borders of the grid cells.
C22_SmallRegionOnePoint ==
    (Merged /\ SmallRegion) => Len(stageOut) = 1

\* Three different points of such a region, one of them at a negative
\* coordinate, fell into different grid cells and were merged.
C22_Witness ==
    /\ Merged
    /\ SmallRegion
    /\ Len(stageIn.points) = 3
    /\ Cardinality({stageIn.points[i] : i \in 1 .. 3}) = 3
    /\ \E i, j \in 1 .. 3 :
          /\ stageIn.points[i].x < 0
          /\ CellKey(stageIn.points[i], stageIn.lodThreshold, stageIn.scale)
                # CellKey(stageIn.points[j], stageIn.lodThreshold, stageIn.scale)
    /\ Len(stageOut) = 1

(***************************************************************************)
(* Claims about the stages of the data worker                              *)
(***************************************************************************)
\* C23: every answered batch went through decode, project, cull, LOD,
\* quantize, pixel-align and encode in this order, where cull runs iff
\* enableCulling is true and viewBounds is set, LOD runs iff enableLOD is
\* true, quantize runs iff enableQuantization is true, and pixel-align always
\* runs.
C23_StageGating ==
    \A i \in 1 .. Len(workerLog) :
        LET e == workerLog[i]
            config == e.before.config
            transform == e.msg.transform
            decoded == InputPoints(e.msg)
            projected == projectPoints(decoded, transform)
            culled == IF config.enableCulling /\ config.viewBounds # Null
                      THEN cullPoints(projected, config.viewBounds, transform)
                      ELSE projected
            merged == IF config.enableLOD
                      THEN applyLOD(culled, ScaleOf(transform), config.lodThreshold)
                      ELSE culled
            quantized == IF config.enableQuantization THEN quantizePoints(merged) ELSE merged
            aligned == pixelAlign(quantized, transform)
        IN  IsProcessed(e) =>
               /\ e.out[1].data = pointsToArrayBuffer(aligned)
               /\ e.out[1].stats.inputPoints = Len(decoded)
               /\ e.out[1].stats.outputPoints = Len(aligned)

\* A batch was merged by the LOD stage although culling was switched off
\* with a view rectangle set, and culling would have removed one of its
\* points.
C23_Witness ==
    \E i \in 1 .. Len(workerLog) :
        LET e == workerLog[i]
            config == e.before.config
            decoded == InputPoints(e.msg)
        IN  /\ IsProcessed(e)
            /\ ~config.enableCulling
            /\ config.viewBounds # Null
            /\ config.enableLOD
            /\ Len(cullPoints(decoded, config.viewBounds, e.msg.transform)) < Len(decoded)
            /\ e.out[1].stats.outputPoints < Len(decoded)

(***************************************************************************)
(* Claims about buffers handed between threads                             *)
(***************************************************************************)
\* C24: once a thread has handed a buffer to postMessage in a transfer list,
\* it neither reads nor writes that buffer again.
C24_OwnershipTransfer ==
    \A j, k \in 1 .. Len(accessLog) :
        (/\ j < k
         /\ accessLog[j].op = "transfer"
         /\ accessLog[k].buffer = accessLog[j].buffer)
            => accessLog[k].thread # accessLog[j].thread

\* A buffer went from the simulator through the main thread to the data
\* worker, which read it, and the reply went to the main thread, which read
\* it.
C24_Witness ==
    \E i, j, k, m, n \in 1 .. Len(accessLog) :
        /\ i < j /\ j < k /\ k < m /\ m < n
        /\ accessLog[i] = Transfer("simulator", <<"raw", 1>>, "main")
        /\ accessLog[j] = Transfer("main", <<"raw", 1>>, "worker")
        /\ accessLog[k] = Access("worker", "read", <<"raw", 1>>)
        /\ accessLog[m] = Transfer("worker", <<"processed", 1>>, "main")
        /\ accessLog[n] = Access("main", "read", <<"processed", 1>>)

(***************************************************************************)
(* Claims about configuration                                              *)
(***************************************************************************)
\* C25: whenever the LOD threshold control changes, a 'config' message that
\* carries the new lodThreshold is posted to the data worker.
C25_LodControl ==
    [][(app'.lodThreshold # app.lodThreshold) =>
          \E i \in 1 .. Len(workerIn') :
              /\ i > Len(workerIn)
              /\ workerIn'[i].type = "config"
              /\ "lodThreshold" \in DOMAIN workerIn'[i].params
              /\ workerIn'[i].params.lodThreshold = app'.lodThreshold]_vars

\* The value field f has after the first i handled messages: the one carried
\* by the last 'config' message among them that carries f, or the initial
\* one.
RECURSIVE LastWritten(_, _)
LastWritten(f, i) ==
    IF i = 0 THEN NewWorker.config[f]
    ELSE IF workerLog[i].msg.type = "config" /\ f \in DOMAIN workerLog[i].msg.params
         THEN workerLog[i].msg.params[f]
         ELSE LastWritten(f, i - 1)

\* C26: a 'config' message overwrites exactly the fields it carries, leaves
\* every other field, the accumulator and totalPoints as they were and posts
\* nothing; every batch runs with, for each field, the value of the last
\* 'config' message that carried it.
C26_ConfigOverwrite ==
    \A i \in 1 .. Len(workerLog) :
        LET e == workerLog[i]
        IN  /\ e.msg.type = "config" =>
                  /\ DOMAIN e.after.config = DOMAIN e.before.config \cup DOMAIN e.msg.params
                  /\ \A f \in DOMAIN e.after.config :
                        e.after.config[f] = IF f \in DOMAIN e.msg.params
                                            THEN e.msg.params[f]
                                            ELSE e.before.config[f]
                  /\ e.after.pointCache = e.before.pointCache
                  /\ e.after.totalPoints = e.before.totalPoints
                  /\ e.out = <<>>
            /\ e.msg.type = "process" =>
                  \A f \in DOMAIN e.before.config :
                      e.before.config[f] = LastWritten(f, i - 1)

\* Two 'config' messages set enableCulling to different values while
\* lodThreshold kept its value, and a batch handled after both was answered.
C26_Witness ==
    \E i, j, k \in 1 .. Len(workerLog) :
        /\ i < j /\ j < k
        /\ workerLog[i].msg.type = "config"
        /\ workerLog[j].msg.type = "config"
        /\ "enableCulling" \in DOMAIN workerLog[i].msg.params
        /\ "enableCulling" \in DOMAIN workerLog[j].msg.params
        /\ workerLog[i].msg.params.enableCulling # workerLog[j].msg.params.enableCulling
        /\ workerLog[i].after.config.lodThreshold = workerLog[j].after.config.lodThreshold
        /\ IsProcessed(workerLog[k])

(***************************************************************************)
(* Claims about the packed draw ranges and the render frame                *)
(***************************************************************************)
\* The counts of the first i draw ranges.
DrawCounts(rd, i) == [k \in 1 .. i |-> rd.packedDraws[k].count]

\* C27: the draw ranges are contiguous and do not overlap (each starts at
\* the sum of the counts before it), _packedTotal is the sum of all counts
\* and never exceeds MAX_POINTS.
C27_DrawRanges ==
    /\ \A i \in 1 .. Len(renderer.packedDraws) :
          /\ renderer.packedDraws[i].count >= 0
          /\ renderer.packedDraws[i].start = SeqSum(DrawCounts(renderer, i - 1))
    /\ renderer.packedTotal = SeqSum(DrawCounts(renderer, Len(renderer.packedDraws)))
    /\ renderer.packedTotal <= MAX_POINTS

\* Two entities that together hold more than MAX_POINTS points were packed
\* into two non-empty ranges.
C27_Witness ==
    /\ ~renderer.needsPack
    /\ TotalCount(getActiveRobots(renderer.robotManager)) > MAX_POINTS
    /\ Len(renderer.packedDraws) = 2
    /\ renderer.packedDraws[1].count > 0
    /\ renderer.packedDraws[2].count > 0

\* The log holds a pack and no write to the store after the last one.
PackedAndUntouched(log) ==
    \E p \in 1 .. Len(log) :
        /\ log[p] = Access("main", "write", StagingArrays)
        /\ \A k \in p + 1 .. Len(log) :
              /\ log[k] # Access("main", "write", StoreArrays)
              /\ log[k] # Access("main", "clear", StoreArrays)
              /\ log[k] # Access("main", "write", StagingArrays)

\* C28: a frame rendered while the store has not changed since the last
\* pack neither packs nor uploads, and leaves the staging arrays, the draw
\* list, _packedTotal and the GPU buffers as they were.
C28_FrameReusesPack ==
    [][(/\ PackedAndUntouched(accessLog)
        /\ Len(accessLog') > Len(accessLog)
        /\ Last(accessLog') = Access("main", "draw", GpuBuffers))
          => /\ accessLog' = Append(accessLog, Access("main", "draw", GpuBuffers))
             /\ renderer'.stagingPos = renderer.stagingPos
             /\ renderer'.stagingColorU8 = renderer.stagingColorU8
             /\ renderer'.packedDraws = renderer.packedDraws
             /\ renderer'.packedTotal = renderer.packedTotal
             /\ gpu'.position = gpu.position
             /\ gpu'.color = gpu.color]_vars

\* Two frames in a row followed a pack of at least two points: the second
\* one found the store as the pack had left it.
C28_Witness ==
    /\ Len(accessLog) >= 4
    /\ accessLog[Len(accessLog) - 3] = Access("main", "write", StagingArrays)
    /\ accessLog[Len(accessLog) - 2] = Access("main", "write", GpuBuffers)
    /\ accessLog[Len(accessLog) - 1] = Access("main", "draw", GpuBuffers)
    /\ accessLog[Len(accessLog)] = Access("main", "draw", GpuBuffers)
    /\ renderer.packedTotal >= 2
    /\ gpu.drawCalls # <<>>

\* The indices merged into the clusters before cluster c.
ProcessedBefore(clusters, c) ==
    UNION { {clusters[b][m] : m \in 1 .. Len(clusters[b])} : b \in 1 .. c - 1 }

\* The cells of points i and j of the batch are the same or neighbours.
AdjacentCells(i, j) ==
    LET ki == CellKey(stageIn.points[i], stageIn.lodThreshold, stageIn.scale)
        kj == CellKey(stageIn.points[j], stageIn.lodThreshold, stageIn.scale)
    IN  /\ Abs(ki[1] - kj[1]) <= 1
        /\ Abs(ki[2] - kj[2]) <= 1

\* C29: when applyLOD processes a seed, every point not yet processed that
\* lies within the merge distance d of the seed is in the seed's cell or in
\* one of its eight neighbours, and is merged into the seed's cluster.
C29_GridSearchComplete ==
    Merged =>
        LET clusters == StageClusters
        IN  \A c \in 1 .. Len(clusters) :
                LET cluster == clusters[c]
                    seed == cluster[1]
                    before == ProcessedBefore(clusters, c)
                IN  \A j \in 1 .. Len(stageIn.points) :
                        (j \notin before /\ Within(seed, j, 1))
                            => /\ AdjacentCells(seed, j)
                               /\ \E m \in 1 .. Len(cluster) : cluster[m] = j

\* A seed at a non-negative coordinate took a point at a negative one from
\* the neighbouring cell, and left a point of the batch to a later cluster.
C29_Witness ==
    /\ Merged
    /\ Len(StageClusters) >= 2
    /\ \E c \in 1 .. Len(StageClusters) :
          \E m \in 2 .. Len(StageClusters[c]) :
              LET seed == StageClusters[c][1]
                  j == StageClusters[c][m]
              IN  /\ stageIn.points[seed].x >= 0
                  /\ stageIn.points[j].x < 0
                  /\ CellKey(stageIn.points[seed], stageIn.lodThreshold, stageIn.scale)
                        # CellKey(stageIn.points[j], stageIn.lodThreshold, stageIn.scale)

\* cullPoints has answered the call.
Culled ==
    /\ stageIn.stage = "cullPoints"
    /\ stageOut # Null

\* Point i of the batch lies in the view rectangle moved to data coordinates
\* by (screen - translate) / scale and widened by 50 / scale on every side,
\* its border included; a missing scale counts as 1.
InExpandedView(i) ==
    LET p == stageIn.points[i]
        scale == IF stageIn.transform.scale = 0 THEN One ELSE stageIn.transform.scale
        left == (stageIn.viewBounds.left - stageIn.transform.translateX) * One - N(50) * One
        right == (stageIn.viewBounds.right - stageIn.transform.translateX) * One + N(50) * One
        top == (stageIn.viewBounds.top - stageIn.transform.translateY) * One - N(50) * One
        bottom == (stageIn.viewBounds.bottom - stageIn.transform.translateY) * One + N(50) * One
    IN  /\ left <= p.x * scale /\ p.x * scale <= right
        /\ top <= p.y * scale /\ p.y * scale <= bottom

\* The indices of the batch inside the expanded view.
InViewIndices == {i \in 1 .. Len(stageIn.points) : InExpandedView(i)}

\* C30: cullPoints returns, in their order in the batch, exactly the points
\* inside the expanded view rectangle, and returns the batch itself when
\* viewBounds or transform is absent.
C30_CullExact ==
    Culled =>
        IF stageIn.viewBounds = Null \/ stageIn.transform = Null
        THEN stageOut = stageIn.points
        ELSE /\ Len(stageOut) = Cardinality(InViewIndices)
             /\ \A i \in InViewIndices :
                   stageOut[Cardinality({j \in InViewIndices : j <= i})] = stageIn.points[i]

\* Under a translated view at a scale other than 1, a point outside the
\* expanded rectangle was dropped from between two kept points, one of them
\* on the rectangle's border.
C30_Witness ==
    /\ Culled
    /\ stageIn.viewBounds # Null
    /\ stageIn.transform # Null
    /\ stageIn.transform.scale = N(2)
    /\ stageIn.transform.translateX # 0
    /\ Len(stageIn.points) = 3
    /\ stageOut = <<stageIn.points[1], stageIn.points[3]>>
    /\ stageIn.points[1] # stageIn.points[3]
    /\ stageIn.points[3].x = N(27)
    /\ stageIn.points[3].y = N(31)

(***************************************************************************)
(* Claims about the render loop and the session                            *)
(***************************************************************************)
\* The step posted an adaptive 'config' message.
AdaptiveSent == Len(perf'.sent) > Len(perf.sent)

C32_ResumeAfterClear ==
    [][ ( /\ resumeDue
          /\ pendingClears = 1
          /\ pendingClears' = 0 )
        => /\ app'.isSimulating
           /\ simIn' = Append(simIn, [type |-> "start"]) ]_vars

\* C33: when applyLOD merges, the centroids come out in the arrival order
\* of their seeds: the seed of an earlier centroid has a smaller index in
\* the batch than the seed of a later one.
C33_SeedOrder ==
    Merged =>
        \A c, e \in 1 .. Len(StageClusters) :
            c < e => StageClusters[c][1] < StageClusters[e][1]

(***************************************************************************)
(* Claims about the 'processed' message                                    *)
(***************************************************************************)
\* C34: the totalPoints reported in the stats of a 'processed' message is
\* the size of the capped accumulator and at most config.maxPoints.
C34_TotalPointsCapped ==
    \A i \in 1 .. Len(workerLog) :
        LET e == workerLog[i]
        IN  IsProcessed(e) =>
               /\ e.out[1].stats.totalPoints = Len(e.after.pointCache)
               /\ e.out[1].stats.totalPoints <= e.before.config.maxPoints

\* C35: every 'processed' message is well formed: its buffer is 4 + 28 *
\* count bytes long and holds 7 floats per point, count being the header
\* value; count equals stats.outputPoints, which is at most
\* stats.inputPoints; updatePoints reads count points from it.
C35_ProcessedWellFormed ==
    \A k \in 1 .. Len(workerOut) :
        LET r == workerOut[k]
        IN  IsProcessedReply(r) =>
               /\ r.data.byteLength = 4 + 28 * r.data.count
               /\ Len(r.data.words) * 4 = r.data.byteLength - 4
               /\ r.data.count = r.stats.outputPoints
               /\ r.stats.outputPoints <= r.stats.inputPoints
               /\ Len(ReadPoints(r.data)) = r.data.count

\* A reply carries fewer points than its batch held, and at least one.
C35_Witness ==
    \E k \in 1 .. Len(workerOut) :
        /\ IsProcessedReply(workerOut[k])
        /\ workerOut[k].stats.outputPoints < workerOut[k].stats.inputPoints
        /\ workerOut[k].data.count > 0

(***************************************************************************)
(* Claims about the colours of delivered points                            *)
(***************************************************************************)
\* The step is updatePoints on the processed buffer of that batch.
Delivered(points) ==
    /\ points # <<>>
    /\ renderer' = updatePoints(renderer, pointsToArrayBuffer(points))
    /\ hist' = LoggedBatch(hist, ReadPoints(pointsToArrayBuffer(points)))

\* C36: the colour stored for a point delivered through updatePoints is the
\* r, g, b, a the point carries in the processed buffer: after the step the
\* newest point of each entity of the batch is the entity's last delivered
\* point with that colour.
C36_DeliveredColour ==
    [][\A points \in RenderBatches :
          Delivered(points) =>
              \A i \in 1 .. Len(points) :
                  LET read == ReadPoints(pointsToArrayBuffer(points))
                      id == GroupKey(read[i])
                      latest == \A j \in i + 1 .. Len(points) : GroupKey(read[j]) # id
                  IN  latest =>
                         Last(Window(renderer'.robotManager.rs[id]))
                            = [x |-> read[i].x, y |-> read[i].y,
                               color |-> <<read[i].r, read[i].g, read[i].b, read[i].a>>]]_vars

(***************************************************************************)
(* Claims about the partition made by the LOD stage                        *)
(***************************************************************************)
\* The clusters that hold index j of the batch.
ClustersHolding(clusters, j) ==
    {c \in 1 .. Len(clusters) : \E m \in 1 .. Len(clusters[c]) : clusters[c][m] = j}

\* C37: when applyLOD merges, every input point is a member of exactly one
\* cluster and once, every cluster has a member, the cluster sizes sum to
\* the input count, and the output holds one centroid per cluster and no
\* more points than the input.
C37_LodPartition ==
    Merged =>
        LET clusters == StageClusters
            n == Len(stageIn.points)
        IN  /\ \A j \in 1 .. n : Cardinality(ClustersHolding(clusters, j)) = 1
            /\ \A c \in 1 .. Len(clusters) :
                  /\ Len(clusters[c]) >= 1
                  /\ \A m, k \in 1 .. Len(clusters[c]) :
                        clusters[c][m] = clusters[c][k] => m = k
            /\ SeqSum([c \in 1 .. Len(clusters) |-> Len(clusters[c])]) = n
            /\ Len(stageOut) = Len(clusters)
            /\ Len(stageOut) <= n

\* A point within the merge distance of two seeds went to the first one
\* only, and the later seed kept a cluster of its own.
C37_Witness ==
    /\ Merged
    /\ Len(stageIn.points) = 3
    /\ Len(StageClusters) = 2
    /\ \E c, e \in 1 .. 2 :
          /\ c < e
          /\ Len(StageClusters[c]) = 2
          /\ Within(StageClusters[e][1], StageClusters[c][2], 1)

(***************************************************************************)
(* Claims about frames after a clear                                       *)
(***************************************************************************)
\* The log holds a clear and no pack after the last one.
ClearedAndUnpacked(log) ==
    \E p \in 1 .. Len(log) :
        /\ log[p] = Access("main", "clear", StoreArrays)
        /\ \A k \in p + 1 .. Len(log) : log[k] # Access("main", "write", StagingArrays)

\* C38: a frame rendered after a clear and before the next pack issues no
\* path draw call.
C38_NoStaleDraw ==
    [][(/\ Len(accessLog') > Len(accessLog)
        /\ Last(accessLog') = Access("main", "draw", GpuBuffers)
        /\ ClearedAndUnpacked(accessLog'))
          => gpu'.drawCalls = <<>>]_vars

\* A frame drew a path, the store was cleared, and the next frame drew
\* nothing although the draw list still holds the range of the cleared path.
C38_Witness ==
    /\ Len(accessLog) >= 3
    /\ accessLog[Len(accessLog) - 2] = Access("main", "draw", GpuBuffers)
    /\ accessLog[Len(accessLog) - 1] = Access("main", "clear", StoreArrays)
    /\ accessLog[Len(accessLog)] = Access("main", "draw", GpuBuffers)
    /\ \E i \in 1 .. Len(renderer.packedDraws) : renderer.packedDraws[i].count > 1
    /\ gpu.drawCalls = <<>>

(***************************************************************************)
(* Claims about the simulation flag                                        *)
(***************************************************************************)
\* C39: whenever no control message is in flight (nothing is on its way to
\* the simulator and no 'clear' awaits its 'cleared'), the isSimulating flag
\* of the UI equals the simulator's isRunning.
C39_FlagMatchesSimulator ==
    (simIn = <<>> /\ pendingClears = 0) => (app.isSimulating = sim.isRunning)

====
